---------------------------- MODULE Spec2Model ----------------------------
(***************************************************************************)
(* Bureaucracy Buster: the PDF viewing / annotation / export pipeline.     *)
(*                                                                         *)
(* The model follows the TypeScript sources:                               *)
(*   src/App.tsx                      App (annotation list, handleDownload)*)
(*                                    and PdfPage / PdfRenderer            *)
(*   src/components/DocumentViewer.tsx  the zoom controls (scale)          *)
(*   src/unnamed/part_000             pdfService.saveFilledPdf             *)
(*                                                                         *)
(* JavaScript numbers are IEEE-754 binary64 values.  They are modelled     *)
(* exactly: a number is sgn * m * 2^e with a 53-bit significand m, and     *)
(* + - * / round to nearest, ties to even, as the language defines them.   *)
(* Significands do not fit TLC's integers, so they are kept as sequences   *)
(* of 15-bit limbs, least significant first.                               *)
(***************************************************************************)
EXTENDS Integers, Sequences, FiniteSets, TLC

(***************************************************************************)
(* Natural numbers of arbitrary size: little-endian sequences of limbs,    *)
(* without leading (most significant) zero limbs.  <<>> is zero.           *)
(***************************************************************************)
Base == 2^15

RECURSIVE Norm(_)
Norm(a) ==
  IF a = <<>> THEN a
  ELSE IF a[Len(a)] = 0 THEN Norm(SubSeq(a, 1, Len(a) - 1)) ELSE a

RECURSIVE NatLimbs(_)
NatLimbs(n) == IF n = 0 THEN <<>> ELSE <<n % Base>> \o NatLimbs(n \div Base)

RECURSIVE Zeros(_)
Zeros(n) == IF n = 0 THEN <<>> ELSE <<0>> \o Zeros(n - 1)

RECURSIVE AddC(_, _, _)
AddC(a, b, c) ==
  IF a = <<>> /\ b = <<>> THEN (IF c = 0 THEN <<>> ELSE <<c>>)
  ELSE LET x == IF a = <<>> THEN 0 ELSE Head(a)
           y == IF b = <<>> THEN 0 ELSE Head(b)
           s == x + y + c
       IN  <<s % Base>> \o AddC(IF a = <<>> THEN a ELSE Tail(a),
                                IF b = <<>> THEN b ELSE Tail(b),
                                s \div Base)

BigAdd(a, b) == AddC(a, b, 0)

\* a - b - c for a >= b + c, limb by limb with borrow c
RECURSIVE SubB(_, _, _)
SubB(a, b, c) ==
  IF a = <<>> THEN <<>>
  ELSE LET y == IF b = <<>> THEN 0 ELSE Head(b)
           d == Head(a) - y - c
       IN  <<IF d < 0 THEN d + Base ELSE d>>
             \o SubB(Tail(a), IF b = <<>> THEN b ELSE Tail(b),
                     IF d < 0 THEN 1 ELSE 0)

BigSub(a, b) == Norm(SubB(a, b, 0))

\* -1, 0, 1 as a < b, a = b, a > b
RECURSIVE CmpTop(_, _, _)
CmpTop(a, b, i) ==
  IF i = 0 THEN 0
  ELSE IF a[i] < b[i] THEN -1
  ELSE IF a[i] > b[i] THEN 1
  ELSE CmpTop(a, b, i - 1)

BigCmp(a, b) ==
  IF Len(a) < Len(b) THEN -1
  ELSE IF Len(a) > Len(b) THEN 1
  ELSE CmpTop(a, b, Len(a))

RECURSIVE MulSmallC(_, _, _)
MulSmallC(a, k, c) ==
  IF a = <<>> THEN (IF c = 0 THEN <<>> ELSE <<c>>)
  ELSE LET p == Head(a) * k + c
       IN  <<p % Base>> \o MulSmallC(Tail(a), k, p \div Base)

RECURSIVE BigMul(_, _)
BigMul(a, b) ==
  IF a = <<>> \/ b = <<>> THEN <<>>
  ELSE Norm(BigAdd(MulSmallC(a, Head(b), 0), <<0>> \o BigMul(a, Tail(b))))

\* floor(a / k) for 0 < k < Base, from the most significant limb down
RECURSIVE DivSmallR(_, _, _, _)
DivSmallR(a, k, i, r) ==
  IF i = 0 THEN <<>>
  ELSE LET t == r * Base + a[i]
       IN  DivSmallR(a, k, i - 1, t % k) \o <<t \div k>>

DivSmall(a, k) == Norm(DivSmallR(a, k, Len(a), 0))

ShiftLeft(a, n) ==
  IF a = <<>> THEN a
  ELSE Zeros(n \div 15) \o MulSmallC(a, 2^(n % 15), 0)

ShiftRight(a, n) ==
  IF n \div 15 >= Len(a) THEN <<>>
  ELSE DivSmall(SubSeq(a, n \div 15 + 1, Len(a)), 2^(n % 15))

RECURSIVE SmallBits(_)
SmallBits(n) == IF n = 0 THEN 0 ELSE 1 + SmallBits(n \div 2)

BitLen(a) == IF a = <<>> THEN 0 ELSE 15 * (Len(a) - 1) + SmallBits(a[Len(a)])

IsOdd(a) == a # <<>> /\ a[1] % 2 = 1

(***************************************************************************)
(* IEEE-754 binary64 numbers (JavaScript's number type).  A number is the  *)
(* record [sgn, m, e] standing for sgn * m * 2^e with 2^52 <= m < 2^53, or *)
(* F64Zero.  The magnitudes the viewer handles (scales in [0.5, 3], page   *)
(* coordinates of a few thousand points) stay far inside the normal range, *)
(* so overflow, subnormals, infinities and NaN do not arise and are not    *)
(* represented; -0 is identified with 0 (they compare equal in the code).  *)
(***************************************************************************)
F64Zero == [sgn |-> 1, m |-> <<>>, e |-> 0]

\* The binary64 value nearest to sgn * (M + f) * 2^E, where 0 <= f < 1 and
\* f > 0 exactly if sticky: round to nearest, ties to even.
Round(sgn, M, E, sticky) ==
  IF M = <<>> THEN F64Zero
  ELSE LET L == BitLen(M)
       IN  IF L <= 53
           THEN [sgn |-> sgn, m |-> ShiftLeft(M, 53 - L), e |-> E - (53 - L)]
           ELSE LET d    == L - 53
                    q    == ShiftRight(M, d)
                    rem  == BigSub(M, ShiftLeft(q, d))
                    half == ShiftLeft(<<1>>, d - 1)
                    c    == BigCmp(rem, half)
                    up   == c > 0 \/ (c = 0 /\ (sticky \/ IsOdd(q)))
                    q1   == IF up THEN BigAdd(q, <<1>>) ELSE q
                IN  IF BitLen(q1) > 53
                    THEN [sgn |-> sgn, m |-> ShiftRight(q1, 1), e |-> E + d + 1]
                    ELSE [sgn |-> sgn, m |-> q1, e |-> E + d]

\* An integer literal of the source as a number
Num(n) == IF n < 0 THEN Round(-1, NatLimbs(-n), 0, FALSE)
                   ELSE Round(1, NatLimbs(n), 0, FALSE)

FNeg(a) == IF a.m = <<>> THEN a ELSE [a EXCEPT !.sgn = -a.sgn]

\* a + b
FAdd(a, b) ==
  IF a.m = <<>> THEN b
  ELSE IF b.m = <<>> THEN a
  ELSE LET e == IF a.e < b.e THEN a.e ELSE b.e
           A == ShiftLeft(a.m, a.e - e)
           B == ShiftLeft(b.m, b.e - e)
           c == BigCmp(A, B)
       IN  IF a.sgn = b.sgn THEN Round(a.sgn, BigAdd(A, B), e, FALSE)
           ELSE IF c = 0 THEN F64Zero
           ELSE IF c > 0 THEN Round(a.sgn, BigSub(A, B), e, FALSE)
           ELSE Round(b.sgn, BigSub(B, A), e, FALSE)

\* a - b
FSub(a, b) == FAdd(a, FNeg(b))

\* a * b
FMul(a, b) ==
  IF a.m = <<>> \/ b.m = <<>> THEN F64Zero
  ELSE Round(a.sgn * b.sgn, BigMul(a.m, b.m), a.e + b.e, FALSE)

\* Binary long division of r * 2^n by d (r < d), continuing a quotient q:
\* <<quotient, remainder>>
RECURSIVE LongDiv(_, _, _, _)
LongDiv(q, r, d, n) ==
  IF n = 0 THEN <<q, r>>
  ELSE LET r2 == AddC(r, r, 0)
       IN  IF BigCmp(r2, d) >= 0
           THEN LongDiv(AddC(q, q, 1), BigSub(r2, d), d, n - 1)
           ELSE LongDiv(AddC(q, q, 0), r2, d, n - 1)

\* Eight more quotient bits
Div8(qr, d) == LongDiv(qr[1], qr[2], d, 8)

\* a / b for b # 0: 56 quotient bits below the leading one, and the rest
\* of the quotient as the sticky bit.  A power of two divides exactly.
FDiv(a, b) ==
  IF a.m = <<>> THEN F64Zero
  ELSE IF b.m = ShiftLeft(<<1>>, 52)
  THEN [sgn |-> a.sgn * b.sgn, m |-> a.m, e |-> a.e - b.e - 52]
  ELSE LET ge == BigCmp(a.m, b.m) >= 0
           q0 == <<IF ge THEN <<1>> ELSE <<>>,
                   IF ge THEN BigSub(a.m, b.m) ELSE a.m>>
           qr == Div8(Div8(Div8(Div8(Div8(Div8(Div8(q0, b.m), b.m), b.m),
                                     b.m), b.m), b.m), b.m)
       IN  Round(a.sgn * b.sgn, qr[1], a.e - b.e - 56, qr[2] # <<>>)

\* a < b
FLess(a, b) == LET d == FSub(a, b) IN d.m # <<>> /\ d.sgn = -1

\* Math.max(a, b), Math.min(a, b)
FMax(a, b) == IF FLess(a, b) THEN b ELSE a
FMin(a, b) == IF FLess(b, a) THEN b ELSE a

\* Math.floor(a)
FFloor(a) ==
  IF a.m = <<>> \/ a.e >= 0 THEN a
  ELSE LET q == ShiftRight(a.m, -a.e)
       IN  IF ShiftLeft(q, -a.e) = a.m THEN a
           ELSE IF a.sgn = 1 THEN Round(1, q, 0, FALSE)
           ELSE Round(-1, BigAdd(q, <<1>>), 0, FALSE)

\* Math.ceil(a)
FCeil(a) == FNeg(FFloor(FNeg(a)))

\* k more bits of the largest r with r * r <= M, from bit n down, continuing
\* the bits r
RECURSIVE SqrtBits(_, _, _, _)
SqrtBits(M, r, n, k) ==
  IF k = 0 THEN r
  ELSE LET t == BigAdd(r, ShiftLeft(<<1>>, n))
       IN  IF BigCmp(BigMul(t, t), M) <= 0
           THEN SqrtBits(M, t, n - 1, k - 1)
           ELSE SqrtBits(M, r, n - 1, k - 1)

\* Eight more bits
Sqrt8(M, r, n) == SqrtBits(M, r, n, 8)

\* Math.sqrt(a) for a >= 0: the significand is shifted to 109 or 110 bits, an
\* even exponent left, and the root of that, of 55 bits, rounded
FSqrt(a) ==
  IF a.m = <<>> THEN a
  ELSE LET sh == 56 + (a.e % 2)
           M  == ShiftLeft(a.m, sh)
           r  == Sqrt8(M, Sqrt8(M, Sqrt8(M, Sqrt8(M, Sqrt8(M, Sqrt8(M,
                   Sqrt8(M, <<>>, 55), 47), 39), 31), 23), 15), 7)
       IN  Round(1, r, (a.e - sh) \div 2, BigMul(r, r) # M)

(***************************************************************************)
(* Bounds of the model                                                     *)
(***************************************************************************)
MaxAnnotations == 2     \* annotations on a document at one time
MaxZoomClicks  == 1     \* zoom clicks per mounted viewer
MaxExports     == 2     \* download clicks per run
MaxLoads       == 3     \* runs of loadPdf per mounted PdfRenderer
MaxZoomSteps   == 11    \* zoom clicks in a row, for the zoom buttons on their own

(***************************************************************************)
(* Numeric literals of the source                                          *)
(***************************************************************************)
FontSize    == 12                     \* drawText size, and the baseline offset
InputOffset == 7                      \* top: ann.y * scale - 7
InitScale   == Num(1)                 \* useState(1.0)
ZoomStep    == FDiv(Num(2), Num(10))  \* 0.2
MinScale    == FDiv(Num(5), Num(10))  \* 0.5
MaxScale    == Num(3)                 \* 3.0

(***************************************************************************)
(* The values the environment supplies                                     *)
(***************************************************************************)
\* A page of a parsed document: its size at scale 1.0, in points
Page(w, h) == [width |-> Num(w), height |-> Num(h)]

\* The files a user may select (FileData).  pages is what a parser finds in
\* content; a file that is no PDF has none.
Files ==
  { [name |-> "form.pdf",   isPdf |-> TRUE,  pages |-> <<Page(600, 800), Page(800, 600)>>],
    [name |-> "letter.pdf", isPdf |-> TRUE,  pages |-> <<Page(612, 792)>>],
    [name |-> "notes.txt",  isPdf |-> FALSE, pages |-> <<>>] }

NoFile == [name |-> "", isPdf |-> FALSE, pages |-> <<>>]

\* Points of a page wrapper a double click may land on: clientX - rect.left,
\* clientY - rect.top
ClickPoints == { <<Num(120), Num(200)>> }

\* What Math.random().toString(36).substr(2, 9) may return
Ids == {"id1", "id2"}

\* What a user may type into an annotation's input
Texts == {"", "John Doe"}

VARIABLES
  status,       \* App: AnalysisStatus
  fileData,     \* App: the selected file, or NoFile for null
  annotations,  \* App: Annotation[]
  alerts,       \* the messages passed to window.alert, in order
  downloads,    \* the files handed to the browser by link.click(), in order
  exports,      \* the calls of handleDownload, each with its progress
  renderer,     \* PdfRenderer: "unmounted", "loading", "loaded" or "error"
  scale,        \* DocumentViewer: the zoom scale
  zoomClicks,   \* zoom clicks since the viewer was mounted (for MaxZoomClicks)
  view,         \* PdfPage of each page: what it shows, and its render effects
  coord,        \* a point on its way through the coordinate conversions
  bytes,        \* fileData.content: its state, and who was handed which buffer
  call,         \* the operation of the annotation list a caller applied last
  pdfRenderer   \* a PdfRenderer looked at on its own: props, state, parses

vars == <<status, fileData, annotations, alerts, downloads, exports, renderer,
          scale, zoomClicks, view, coord, bytes, call, pdfRenderer>>

\* The variables of App, DocumentViewer and PdfRenderer
appVars == <<status, fileData, annotations, alerts, downloads, exports,
             renderer, scale, zoomClicks, bytes>>

(***************************************************************************)
(* App: the annotation list                                                *)
(***************************************************************************)
\* An add that replaces a stored record of the same id: what the source does
\* not do
handleAddAnnotationDedup(prev, a) ==
  Append(SelectSeq(prev, LAMBDA b : b.id # a.id), a)

\* setAnnotations(prev => [...prev, a])
handleAddAnnotation(prev, a) == Append(prev, a)

\* An update that stores the text under a new record when no record has the
\* id: what the source does not do
handleUpdateAnnotationUpsert(prev, id, text) ==
  IF \E i \in 1..Len(prev) : prev[i].id = id
  THEN [i \in 1..Len(prev) |->
          IF prev[i].id = id THEN [prev[i] EXCEPT !.text = text] ELSE prev[i]]
  ELSE Append(prev, [id |-> id, page |-> 1, x |-> F64Zero, y |-> F64Zero,
                     text |-> text])

\* An update that replaces the matching record by a fresh one holding the
\* text: what the source does not do
handleUpdateAnnotationFresh(prev, id, text) ==
  [i \in 1..Len(prev) |->
     IF prev[i].id = id
     THEN [id |-> id, page |-> prev[i].page, x |-> F64Zero, y |-> F64Zero,
           text |-> text]
     ELSE prev[i]]

\* setAnnotations(prev => prev.map(a => a.id === id ? { ...a, text } : a))
handleUpdateAnnotation(prev, id, text) ==
  [i \in 1..Len(prev) |->
     IF prev[i].id = id THEN [prev[i] EXCEPT !.text = text] ELSE prev[i]]

\* A remove that takes out the first matching record only: what the source
\* does not do
handleRemoveAnnotationFirst(prev, id) ==
  LET matching == {i \in 1..Len(prev) : prev[i].id = id}
  IN  IF matching = {} THEN prev
      ELSE LET first == CHOOSE i \in matching : \A j \in matching : i <= j
           IN  SubSeq(prev, 1, first - 1) \o SubSeq(prev, first + 1, Len(prev))

\* setAnnotations(prev => prev.filter(a => a.id !== id))
handleRemoveAnnotation(prev, id) == SelectSeq(prev, LAMBDA a : a.id # id)

(***************************************************************************)
(* FileData.content: the bytes of the selected file                        *)
(*                                                                         *)
(* bytes.content is "none" for no file, "string" for the text or data URL  *)
(* of a file that is no PDF, and for the ArrayBuffer of a PDF "intact" or, *)
(* once a callee has taken it, "detached".  bytes.handed holds a pair for  *)
(* every call that was handed bytes of the file: the callee, and whether   *)
(* its argument was the "original" buffer or a "copy".                     *)
(***************************************************************************)
NoBytes == [content |-> "none", handed |-> {}]

\* FileUpload.processFile: readAsArrayBuffer for a PDF, else a string
processFile(file) ==
  [content |-> IF file.isPdf THEN "intact" ELSE "string", handed |-> {}]

\* A call site that passes the buffer on as it is: what the source does not
\* do
sliceSkipped(buffer) == buffer

\* buffer.slice(0): a new ArrayBuffer with the same bytes
slice(buffer) == "copy"

\* slice(0) of a detached buffer throws, and so does a parser that is handed
\* one
readable(b) == b.content = "intact"

\* callee(buffer).  PDF.js might transfer ownership of the buffer it is handed
\* (detach it): taken tells whether this call did.
handTo(b, callee, buffer, taken) ==
  [content |-> IF buffer = "original" /\ taken THEN "detached" ELSE b.content,
   handed  |-> b.handed \cup {<<callee, buffer>>}]

(***************************************************************************)
(* PdfPage: the render effect                                              *)
(*                                                                         *)
(* view[p] is the PdfPage of page p, and for v = view[p]: v.loading is the *)
(* loading state; v.canvas tells which effect sized the canvas and how far *)
(* it is painted; v.textLayer is the effect that built the text layer (0:  *)
(* it is empty); v.renderTaskRef is the effect whose page.render task the  *)
(* ref holds (0: null).  v.renders holds one closure per run of the        *)
(* effect: its scale, its isCancelled and the await it stands at.          *)
(* v.tasks[r] is the state of the task effect r started.                   *)
(***************************************************************************)
ViewUnmounted ==
  [loading |-> TRUE, canvas |-> [render |-> 0, painted |-> "blank"],
   textLayer |-> 0, renderTaskRef |-> 0, renders |-> <<>>, tasks |-> <<>>]

\* A cancel() that leaves the task running: what the source does not do
cancelTaskIgnored(tasks, ref) == tasks

\* renderTaskRef.current.cancel(), if the ref holds a task: a running task
\* stops, and its promise rejects with RenderingCancelledException
cancelTask(tasks, ref) ==
  IF ref # 0 /\ tasks[ref] = "running"
  THEN [tasks EXCEPT ![ref] = "cancelled"]
  ELSE tasks

\* The effect's cleanup: isCancelled = true, and the task is cancelled
cleanup(v) ==
  IF v.renders = <<>> THEN v
  ELSE [v EXCEPT !.renders[Len(v.renders)].isCancelled = TRUE,
                 !.tasks = cancelTask(v.tasks, v.renderTaskRef)]

\* renderPage(), up to its first await: setLoading(true), pdfDoc.getPage
renderPage(v, s) ==
  [v EXCEPT !.loading = TRUE,
            !.renders = Append(@, [scale |-> s, isCancelled |-> FALSE,
                                   pc |-> "getPage"]),
            !.tasks = Append(@, "none")]

\* PdfPage is mounted at scale s: the effect runs for the first time
ViewMounted(s) == renderPage(ViewUnmounted, s)

\* No PdfPage is mounted
NoViews == <<>>

\* pages.map(pageNum => <PdfPage ... />) for a document of n pages
PagesMounted(n, s) == [p \in 1..n |-> ViewMounted(s)]

\* The commit after setScale(s).  For every mounted PdfPage, if the scale has
\* changed, the effect runs again: the cleanup of the run before, then
\* renderPage.
renderEffect(s) ==
  IF renderer = "loaded" /\ s # scale
  THEN [p \in DOMAIN view |-> renderPage(cleanup(view[p]), s)]
  ELSE view

(***************************************************************************)
(* PdfPage: the size of the canvas                                         *)
(***************************************************************************)
\* What window.devicePixelRatio may be
DevicePixelRatios ==
  { Num(1), FDiv(Num(5), Num(4)), FDiv(Num(3), Num(2)), Num(2) }

\* page.getViewport({ scale }): the size of the page at this scale
getViewport(page, s) ==
  [width |-> FMul(page.width, s), height |-> FMul(page.height, s)]

\* window.devicePixelRatio || 1
outputScale(devicePixelRatio) ==
  IF devicePixelRatio = F64Zero THEN Num(1) ELSE devicePixelRatio

\* A canvas with room for every pixel the page touches: what the source does
\* not do
canvasSizeCeil(page, s, devicePixelRatio) ==
  LET viewport == getViewport(page, s)
  IN  [width  |-> FCeil(FMul(viewport.width, outputScale(devicePixelRatio))),
       height |-> FCeil(FMul(viewport.height, outputScale(devicePixelRatio))),
       style  |-> [width  |-> FFloor(viewport.width),
                   height |-> FFloor(viewport.height)]]

\* canvas.width, canvas.height, canvas.style.width and canvas.style.height
\* as renderPage sets them
canvasSize(page, s, devicePixelRatio) ==
  LET viewport == getViewport(page, s)
  IN  [width  |-> FFloor(FMul(viewport.width, outputScale(devicePixelRatio))),
       height |-> FFloor(FMul(viewport.height, outputScale(devicePixelRatio))),
       style  |-> [width  |-> FFloor(viewport.width),
                   height |-> FFloor(viewport.height)]]

\* renderPage sizes the canvas for the page, the scale and the pixel ratio
\* coord holds
sizeCanvas ==
  /\ coord.step = "page"
  /\ coord' = [step |-> "canvas", page |-> coord.page, s |-> coord.s,
               devicePixelRatio |-> coord.devicePixelRatio,
               canvas |-> canvasSize(coord.page, coord.s,
                                     coord.devicePixelRatio)]
  /\ UNCHANGED <<appVars, view, call, pdfRenderer>>

(***************************************************************************)
(* App: selecting a document, its analysis, starting over                  *)
(***************************************************************************)
AnalyzeFailed  == "Failed to analyze the document. Please ensure your API Key is valid and try again."
DownloadFailed == "Failed to generate download. Please try again."

\* DocumentViewer is rendered for status COMPLETE only.  When it goes, its
\* state and PdfRenderer's go with it; a later mount starts from useState.
Unmounted == /\ renderer' = "unmounted"
             /\ scale' = InitScale
             /\ zoomClicks' = 0
             /\ view' = NoViews

\* FileUpload is rendered for status IDLE only
handleFileSelect(file) ==
  /\ status = "IDLE"
  /\ fileData' = file
  /\ annotations' = <<>>
  /\ status' = "ANALYZING"
  /\ \E taken \in BOOLEAN :
       bytes' = IF file.isPdf
                THEN handTo(processFile(file), "extractTextFromPdf",
                            slice("original"), taken)
                ELSE processFile(file)
  /\ UNCHANGED <<alerts, downloads, exports, renderer, scale, zoomClicks,
                 view, coord, call, pdfRenderer>>

\* runAnalysis reaches setStatus(COMPLETE): the viewer is mounted, and
\* PdfRenderer starts loadPdf for a PDF, which hands the bytes to getDocument
\* or, with bytes it cannot read, ends in its catch at once
runAnalysisComplete ==
  /\ status = "ANALYZING"
  /\ status' = "COMPLETE"
  /\ IF fileData.isPdf
     THEN /\ renderer' = IF readable(bytes) THEN "loading" ELSE "error"
          /\ \E taken \in BOOLEAN :
               bytes' = IF readable(bytes)
                        THEN handTo(bytes, "loadPdf", slice("original"), taken)
                        ELSE bytes
     ELSE /\ renderer' = "unmounted"
          /\ bytes' = bytes
  /\ UNCHANGED <<fileData, annotations, alerts, downloads, exports, scale,
                 zoomClicks, view, coord, call, pdfRenderer>>

\* runAnalysis ends in its catch
runAnalysisError ==
  /\ status = "ANALYZING"
  /\ status' = "ERROR"
  /\ alerts' = Append(alerts, AnalyzeFailed)
  /\ UNCHANGED <<fileData, annotations, downloads, exports, renderer, scale,
                 zoomClicks, view, coord, bytes, call, pdfRenderer>>

\* The language select: a change re-runs the analysis of a COMPLETE document
\* on analysis.transcribedText, which leaves the bytes alone
handleLanguageChange ==
  /\ status = "COMPLETE"
  /\ fileData # NoFile
  /\ status' = "ANALYZING"
  /\ Unmounted
  /\ UNCHANGED <<fileData, annotations, alerts, downloads, exports, coord,
                 bytes, call, pdfRenderer>>

\* A "Start Over" that leaves the annotation list as it is: what the source
\* does not do
resetAppKeeping ==
  /\ status = "COMPLETE"
  /\ fileData' = NoFile
  /\ status' = "IDLE"
  /\ bytes' = NoBytes
  /\ Unmounted
  /\ UNCHANGED <<annotations, alerts, downloads, exports, coord, call,
                 pdfRenderer>>

\* "Start Over" is rendered for status COMPLETE only
resetApp ==
  /\ status = "COMPLETE"
  /\ fileData' = NoFile
  /\ status' = "IDLE"
  /\ annotations' = <<>>
  /\ bytes' = NoBytes
  /\ Unmounted
  /\ UNCHANGED <<alerts, downloads, exports, coord, call, pdfRenderer>>

(***************************************************************************)
(* PdfRenderer: loading the document                                       *)
(***************************************************************************)
\* loadPdf reaches setPages: a PdfPage is mounted for each page, and its
\* effect runs for the first time
loadPdfResolve ==
  /\ renderer = "loading"
  /\ renderer' = "loaded"
  /\ view' = PagesMounted(Len(fileData.pages), scale)
  /\ UNCHANGED <<status, fileData, annotations, alerts, downloads, exports,
                 scale, zoomClicks, coord, bytes, call, pdfRenderer>>

\* loadPdf ends in its catch
loadPdfReject ==
  /\ renderer = "loading"
  /\ renderer' = "error"
  /\ UNCHANGED <<status, fileData, annotations, alerts, downloads, exports,
                 scale, zoomClicks, view, coord, bytes, call, pdfRenderer>>

\* Page numbers counted from 0, as Array.from counts: what the source does
\* not do
pagesFromZero ==
  IF renderer = "loaded" THEN 0..(Len(fileData.pages) - 1) ELSE {}

\* The pages PdfRenderer maps to PdfPage components
pages == IF renderer = "loaded" THEN 1..Len(fileData.pages) ELSE {}

(***************************************************************************)
(* PdfRenderer as a component: its parent may render it again with other   *)
(* bytes.  pdfRenderer holds the pdfData prop, the state pdfDoc (NoFile:   *)
(* null), pages and error ("": null), and one entry of loads for every run *)
(* of loadPdf: the bytes it was started for and how far it is.             *)
(***************************************************************************)
LoadFailed == "Failed to load PDF"

\* No PdfRenderer is looked at on its own
NoRenderer ==
  [pdfData |-> NoFile, pdfDoc |-> NoFile, pages |-> <<>>, error |-> "",
   loads |-> <<>>]

\* loadPdf(), up to its await: setError(null), pdfData.slice(0), getDocument
loadPdf(r, file) ==
  [r EXCEPT !.pdfData = file,
            !.error = "",
            !.loads = Append(@, [data |-> file, pc |-> "getDocument"])]

\* PdfRenderer is mounted with the bytes of file: the effect runs
PdfRendererMounted(file) == loadPdf(NoRenderer, file)

\* The parent renders PdfRenderer with other bytes: pdfData has changed, so
\* the effect runs again.  It has no cleanup.
pdfDataChange(file) ==
  /\ pdfRenderer # NoRenderer
  /\ Len(pdfRenderer.loads) < MaxLoads
  /\ file.isPdf
  /\ file # pdfRenderer.pdfData
  /\ pdfRenderer' = loadPdf(pdfRenderer, file)
  /\ UNCHANGED <<appVars, view, coord, call>>

\* await loadingTask.promise returns in run i of loadPdf: setPdfDoc, setPages
getDocumentResolve(i) ==
  /\ pdfRenderer.loads[i].pc = "getDocument"
  /\ pdfRenderer' =
       [pdfRenderer EXCEPT
          !.pdfDoc = pdfRenderer.loads[i].data,
          !.pages = [n \in 1..Len(pdfRenderer.loads[i].data.pages) |-> n],
          !.loads[i].pc = "resolved"]
  /\ UNCHANGED <<appVars, view, coord, call>>

\* await loadingTask.promise throws in run i of loadPdf: the catch, setError
getDocumentReject(i) ==
  /\ pdfRenderer.loads[i].pc = "getDocument"
  /\ pdfRenderer' = [pdfRenderer EXCEPT !.error = LoadFailed,
                                        !.loads[i].pc = "rejected"]
  /\ UNCHANGED <<appVars, view, coord, call>>

\* What PdfRenderer returns: the error, "Processing PDF...", or the pages of
\* pdfDoc
PdfRendererShows(r) ==
  IF r.error # "" THEN [error |-> r.error]
  ELSE IF r.pdfDoc = NoFile THEN [processing |-> TRUE]
  ELSE [pdfDoc |-> r.pdfDoc, pages |-> r.pages]

(***************************************************************************)
(* DocumentViewer: the zoom controls                                       *)
(***************************************************************************)
\* A zoom-out that does not stop at 0.5: what the source does not do
zoomOutUnclamped(s) == FSub(s, ZoomStep)

\* setScale(s => Math.max(0.5, s - 0.2))
zoomOut(s) == FMax(MinScale, FSub(s, ZoomStep))

\* setScale(s => Math.min(3.0, s + 0.2))
zoomIn(s) == FMin(MaxScale, FAdd(s, ZoomStep))

\* The zoom controls are rendered with the PDF branch of a mounted viewer
ZoomControls == status = "COMPLETE" /\ fileData.isPdf

ZoomOut ==
  /\ ZoomControls
  /\ zoomClicks < MaxZoomClicks
  /\ scale' = zoomOut(scale)
  /\ zoomClicks' = zoomClicks + 1
  /\ view' = renderEffect(zoomOut(scale))
  /\ UNCHANGED <<status, fileData, annotations, alerts, downloads, exports,
                 renderer, coord, bytes, call, pdfRenderer>>

\* A zoom-in that would keep the inputs fixed on screen by rewriting the
\* stored coordinates: what the source does not do
ZoomInRescaling ==
  /\ ZoomControls
  /\ zoomClicks < MaxZoomClicks
  /\ scale' = zoomIn(scale)
  /\ zoomClicks' = zoomClicks + 1
  /\ annotations' = [i \in 1..Len(annotations) |->
                       [annotations[i] EXCEPT !.x = FMul(@, scale'),
                                              !.y = FMul(@, scale')]]
  /\ view' = renderEffect(zoomIn(scale))
  /\ UNCHANGED <<status, fileData, alerts, downloads, exports, renderer,
                 coord, bytes, call, pdfRenderer>>

ZoomIn ==
  /\ ZoomControls
  /\ zoomClicks < MaxZoomClicks
  /\ scale' = zoomIn(scale)
  /\ zoomClicks' = zoomClicks + 1
  /\ view' = renderEffect(zoomIn(scale))
  /\ UNCHANGED <<status, fileData, annotations, alerts, downloads, exports,
                 renderer, coord, bytes, call, pdfRenderer>>

(***************************************************************************)
(* DocumentViewer: the zoom buttons on their own.  call keeps the click    *)
(* made last: the scale it found, the scale it set, and how many clicks    *)
(* there were since useState(1.0).                                         *)
(***************************************************************************)
scaleNow == IF call.op = "none" THEN scale ELSE call.after

clicksNow == IF call.op = "none" THEN 0 ELSE call.clicks

\* The "Zoom Out" button: onClick
zoomOutClick ==
  /\ ZoomControls
  /\ call.op \in {"none", "zoomOut", "zoomIn"}
  /\ clicksNow < MaxZoomSteps
  /\ call' = [op |-> "zoomOut", before |-> scaleNow,
              after |-> zoomOut(scaleNow), clicks |-> clicksNow + 1]
  /\ UNCHANGED <<appVars, view, coord, pdfRenderer>>

\* The "Zoom In" button: onClick
zoomInClick ==
  /\ ZoomControls
  /\ call.op \in {"none", "zoomOut", "zoomIn"}
  /\ clicksNow < MaxZoomSteps
  /\ call' = [op |-> "zoomIn", before |-> scaleNow,
              after |-> zoomIn(scaleNow), clicks |-> clicksNow + 1]
  /\ UNCHANGED <<appVars, view, coord, pdfRenderer>>

(***************************************************************************)
(* PdfPage: the annotation overlay and the creation gesture                *)
(***************************************************************************)
\* A PdfPage that is passed the whole list: what the source does not do
pageAnnotationsAll(pageNum) == annotations

\* pageAnnotations={annotations.filter(a => a.page === pageNum)}
pageAnnotations(pageNum) == SelectSeq(annotations, LAMBDA a : a.page = pageNum)

\* style={{ left: ann.x * scale, top: ann.y * scale - 7 }}
overlayStyle(ann, s) ==
  [left |-> FMul(ann.x, s),
   top  |-> FSub(FMul(ann.y, s), Num(InputOffset))]

\* A conversion that stores the screen abscissa as it is: what the source
\* does not do
pdfXUnscaled(clickX, s) == clickX

\* const pdfX = clickX / scale
pdfX(clickX, s) == FDiv(clickX, s)

\* const pdfY = clickY / scale
pdfY(clickY, s) == FDiv(clickY, s)

\* What window.getSelection().toString() may return, as its characters
Selections == { <<>>, <<"\n", " ">>, <<" ", "t", "e", "x", "t", " ">> }

\* The characters String.prototype.trim removes
WhiteSpace == {" ", "\t", "\n"}

\* String.prototype.trim, from the left and from the right
RECURSIVE trimStart(_)
trimStart(str) ==
  IF str # <<>> /\ Head(str) \in WhiteSpace THEN trimStart(Tail(str)) ELSE str

RECURSIVE trimEnd(_)
trimEnd(str) ==
  IF str # <<>> /\ str[Len(str)] \in WhiteSpace
  THEN trimEnd(SubSeq(str, 1, Len(str) - 1))
  ELSE str

trim(str) == trimEnd(trimStart(str))

\* What a double click may hit: the "page" itself, or an annotation's "input"
\* or delete "button"
Targets == {"page", "input", "button"}

\* e.target.closest('input') || e.target.closest('button')
onControl(target) == target \in {"input", "button"}

\* A test that takes no notice of the selection: what the source does not do
selectingTextNever(selection) == FALSE

\* selection && selection.toString().trim().length > 0
selectingText(selection) == Len(trim(selection)) > 0

\* handlePageDoubleClick for a double click on the wrapper of page pageNumber
\* at click, its target being target and the selection selection: what it
\* does to the annotation list.  A click that passes both tests stores a
\* record under a generated id.
pageDoubleClick(pageNumber, click, target, selection) ==
  /\ pageNumber \in pages
  /\ target # "page" => pageAnnotations(pageNumber) # <<>>
  /\ IF onControl(target) \/ selectingText(selection)
     THEN UNCHANGED annotations
     ELSE LET x == pdfX(click[1], scale)
              y == pdfY(click[2], scale)
          IN  /\ Len(annotations) < MaxAnnotations
              /\ \E id \in Ids :
                   annotations' = handleAddAnnotation(annotations,
                     [id |-> id, page |-> pageNumber, x |-> x, y |-> y,
                      text |-> ""])

handlePageDoubleClick(pageNumber, click, target, selection) ==
  /\ pageDoubleClick(pageNumber, click, target, selection)
  /\ UNCHANGED <<status, fileData, alerts, downloads, exports, renderer,
                 scale, zoomClicks, view, coord, bytes, call, pdfRenderer>>

\* The same with the double click kept in call, next to the list it found
onDoubleClick(pageNumber, click, target, selection) ==
  /\ pageDoubleClick(pageNumber, click, target, selection)
  /\ call' = [op |-> "doubleClick", page |-> pageNumber, click |-> click,
              target |-> target, selection |-> selection,
              scale |-> scale, before |-> annotations]
  /\ UNCHANGED <<status, fileData, alerts, downloads, exports, renderer,
                 scale, zoomClicks, view, coord, bytes, pdfRenderer>>

\* An annotation's input: onChange
InputChange(ann, text) ==
  /\ ann.page \in pages
  /\ annotations' = handleUpdateAnnotation(annotations, ann.id, text)
  /\ UNCHANGED <<status, fileData, alerts, downloads, exports, renderer,
                 scale, zoomClicks, view, coord, bytes, call, pdfRenderer>>

\* An annotation's delete button: onClick
DeleteClick(ann) ==
  /\ ann.page \in pages
  /\ annotations' = handleRemoveAnnotation(annotations, ann.id)
  /\ UNCHANGED <<status, fileData, alerts, downloads, exports, renderer,
                 scale, zoomClicks, view, coord, bytes, call, pdfRenderer>>

(***************************************************************************)
(* The handlers App passes down as onAddAnnotation, onUpdateAnnotation and *)
(* onRemoveAnnotation, as a caller may call them with any argument.  call  *)
(* keeps the call and the list it was applied to.                          *)
(***************************************************************************)
onAddAnnotation(a) ==
  /\ Len(annotations) < MaxAnnotations
  /\ annotations' = handleAddAnnotation(annotations, a)
  /\ call' = [op |-> "add", record |-> a, before |-> annotations]
  /\ UNCHANGED <<status, fileData, alerts, downloads, exports, renderer,
                 scale, zoomClicks, view, coord, bytes, pdfRenderer>>

onUpdateAnnotation(id, text) ==
  /\ annotations' = handleUpdateAnnotation(annotations, id, text)
  /\ call' = [op |-> "update", id |-> id, text |-> text, before |-> annotations]
  /\ UNCHANGED <<status, fileData, alerts, downloads, exports, renderer,
                 scale, zoomClicks, view, coord, bytes, pdfRenderer>>

onRemoveAnnotation(id) ==
  /\ annotations' = handleRemoveAnnotation(annotations, id)
  /\ call' = [op |-> "remove", id |-> id, before |-> annotations]
  /\ UNCHANGED <<status, fileData, alerts, downloads, exports, renderer,
                 scale, zoomClicks, view, coord, bytes, pdfRenderer>>

(***************************************************************************)
(* PdfPage: the spans of the text layer                                    *)
(***************************************************************************)
\* item.transform of a text item: [a, b, c, d, e, f]
Transform(a, b, c, d, e, f) ==
  <<Num(a), Num(b), Num(c), Num(d), Num(e), Num(f)>>

\* Items page.getTextContent() may return: upright text, text condensed or
\* stretched sideways, slanted text, text turned by a right angle or by less,
\* and white space
TextItems ==
  { [str |-> <<"N", "a", "m", "e">>, transform |-> Transform(12, 0, 0, 12, 72, 720)],
    [str |-> <<"D", "a", "t", "e">>, transform |-> Transform(10, 0, 0, 12, 72, 700)],
    [str |-> <<"T", "a", "x">>,      transform |-> Transform(18, 0, 0, 12, 72, 680)],
    [str |-> <<"N", "o", ".">>,      transform |-> Transform(12, 0, 4, 12, 72, 660)],
    [str |-> <<"I", "D">>,           transform |-> Transform(0, 12, -12, 0, 300, 72)],
    [str |-> <<"x">>,                transform |-> Transform(3, 4, -4, 3, 300, 90)],
    [str |-> <<" ">>,                transform |-> Transform(12, 0, 0, 12, 90, 720)] }

\* A font height taken from the first column of the matrix: what the source
\* does not do
fontHeightOfFirstColumn(tx) ==
  FSqrt(FAdd(FMul(tx[1], tx[1]), FMul(tx[2], tx[2])))

\* Math.sqrt((tx[2] * tx[2]) + (tx[3] * tx[3])): JavaScript counts the
\* entries from 0, these are the third and the fourth
fontHeight(tx) ==
  FSqrt(FAdd(FMul(tx[3], tx[3]), FMul(tx[4], tx[4])))

\* The loop over textContent.items: an item of white space is passed over,
\* any other gets a span with its text and its font size
RECURSIVE textLayerSpans(_, _)
textLayerSpans(items, s) ==
  IF items = <<>> THEN <<>>
  ELSE LET item == Head(items)
           fontHeightPx == FMul(fontHeight(item.transform), s)
       IN  IF trim(item.str) = <<>>
           THEN textLayerSpans(Tail(items), s)
           ELSE <<[textContent |-> item.str, fontSize |-> fontHeightPx]>>
                  \o textLayerSpans(Tail(items), s)

\* renderPage builds the text layer for the items and the scale coord holds
buildTextLayer ==
  /\ coord.step = "textContent"
  /\ coord' = [step |-> "textLayer", items |-> coord.items, s |-> coord.s,
               spans |-> textLayerSpans(coord.items, coord.s)]
  /\ UNCHANGED <<appVars, view, call, pdfRenderer>>

(***************************************************************************)
(* PdfPage: the steps of the render effects                                *)
(***************************************************************************)
\* What a closure does when it returns, from an isCancelled test or from the
\* catch: nothing but end
returns(v, r) == [v EXCEPT !.renders[r].pc = "returned"]

\* await pdfDoc.getPage(pageNumber) returns: the canvas is sized for the
\* viewport, which clears it; the task the ref holds is cancelled; page.render
\* starts a task
getPageResolve(p, r) ==
  /\ view[p].renders[r].pc = "getPage"
  /\ view' = [view EXCEPT ![p] =
       IF @.renders[r].isCancelled
       THEN returns(@, r)
       ELSE [@ EXCEPT
              !.canvas = [render |-> r, painted |-> "blank"],
              !.tasks = [cancelTask(view[p].tasks, view[p].renderTaskRef)
                           EXCEPT ![r] = "running"],
              !.renderTaskRef = r,
              !.renders[r].pc = "render"]]
  /\ UNCHANGED <<appVars, coord, call, pdfRenderer>>

\* await pdfDoc.getPage(pageNumber) throws
getPageReject(p, r) ==
  /\ view[p].renders[r].pc = "getPage"
  /\ view' = [view EXCEPT ![p] = returns(@, r)]
  /\ UNCHANGED <<appVars, coord, call, pdfRenderer>>

\* A running task paints a part of the page
renderTaskPaints(p, r) ==
  /\ view[p].tasks[r] = "running"
  /\ view[p].canvas # [render |-> r, painted |-> "partial"]
  /\ view' = [view EXCEPT ![p].canvas = [render |-> r, painted |-> "partial"]]
  /\ UNCHANGED <<appVars, coord, call, pdfRenderer>>

\* A running task paints the rest of the page and resolves its promise
renderTaskResolve(p, r) ==
  /\ view[p].tasks[r] = "running"
  /\ view' = [view EXCEPT ![p].canvas = [render |-> r, painted |-> "full"],
                          ![p].tasks[r] = "finished"]
  /\ UNCHANGED <<appVars, coord, call, pdfRenderer>>

\* A task whose failure takes the tasks of the other pages with it: what the
\* source does not do
renderTaskRejectShared(p, r) ==
  /\ view[p].tasks[r] = "running"
  /\ view' = [q \in DOMAIN view |->
       [view[q] EXCEPT !.tasks = [t \in DOMAIN view[q].tasks |->
          IF (q = p /\ t = r) \/ view[q].tasks[t] = "running"
          THEN "failed" ELSE view[q].tasks[t]]]]
  /\ UNCHANGED <<appVars, coord, call, pdfRenderer>>

\* A running task fails and rejects its promise
renderTaskReject(p, r) ==
  /\ view[p].tasks[r] = "running"
  /\ view' = [view EXCEPT ![p].tasks[r] = "failed"]
  /\ UNCHANGED <<appVars, coord, call, pdfRenderer>>

\* await renderTaskRef.current.promise is over: the catch for a rejected
\* promise, else the isCancelled test and page.getTextContent
renderSettled(p, r) ==
  /\ view[p].renders[r].pc = "render"
  /\ view[p].tasks[r] \in {"finished", "cancelled", "failed"}
  /\ view' = [view EXCEPT ![p] =
       IF @.tasks[r] # "finished" \/ @.renders[r].isCancelled
       THEN returns(@, r)
       ELSE [@ EXCEPT !.renders[r].pc = "getTextContent"]]
  /\ UNCHANGED <<appVars, coord, call, pdfRenderer>>

\* A closure that tests nothing after the last await: what the source does
\* not do
getTextContentResolveUntested(p, r) ==
  /\ view[p].renders[r].pc = "getTextContent"
  /\ view' = [view EXCEPT ![p].textLayer = r, ![p].loading = FALSE,
                          ![p].renders[r].pc = "returned"]
  /\ UNCHANGED <<appVars, coord, call, pdfRenderer>>

\* A closure that builds the text layer and leaves the loading state set:
\* what the source does not do
getTextContentResolveLoading(p, r) ==
  /\ view[p].renders[r].pc = "getTextContent"
  /\ view' = [view EXCEPT ![p] =
       IF @.renders[r].isCancelled
       THEN returns(@, r)
       ELSE [@ EXCEPT !.textLayer = r, !.renders[r].pc = "returned"]]
  /\ UNCHANGED <<appVars, coord, call, pdfRenderer>>

\* await page.getTextContent() returns: the isCancelled test, then the text
\* layer is emptied and rebuilt and setLoading(false)
getTextContentResolve(p, r) ==
  /\ view[p].renders[r].pc = "getTextContent"
  /\ view' = [view EXCEPT ![p] =
       IF @.renders[r].isCancelled
       THEN returns(@, r)
       ELSE [@ EXCEPT !.textLayer = r, !.loading = FALSE,
                      !.renders[r].pc = "returned"]]
  /\ UNCHANGED <<appVars, coord, call, pdfRenderer>>

\* await page.getTextContent() throws
getTextContentReject(p, r) ==
  /\ view[p].renders[r].pc = "getTextContent"
  /\ view' = [view EXCEPT ![p] = returns(@, r)]
  /\ UNCHANGED <<appVars, coord, call, pdfRenderer>>

(***************************************************************************)
(* pdfService.saveFilledPdf and App.handleDownload                         *)
(***************************************************************************)
\* A loop without the test of the page number: what the source does not do
skippedNever(annotation, docPages) == FALSE

\* if (annotation.page > pages.length) continue
skipped(annotation, docPages) == annotation.page > Len(docPages)

\* A lookup that takes every annotation's page to be the first one: what the
\* source does not do
pageOfFirst(annotation, docPages) == docPages[1]

\* const page = pages[annotation.page - 1], for an index inside the array
pageOf(annotation, docPages) == docPages[annotation.page]

\* A conversion that exports the point where the input is on screen: what the
\* source does not do
toOutputZoomed(annotation, height) ==
  [x |-> FMul(annotation.x, scale),
   y |-> FSub(FSub(height, FMul(annotation.y, scale)), Num(FontSize))]

\* const x = annotation.x; const y = height - annotation.y - 12
toOutput(annotation, height) ==
  [x |-> annotation.x,
   y |-> FSub(FSub(height, annotation.y), Num(FontSize))]

\* The body of `for (const annotation of annotations)`, from annotation i on.
\* drawn is what page.drawText has put into pdfDoc so far.  pages[page - 1]
\* is undefined for an index outside the array, and page.getSize() then
\* throws a TypeError.  throwAt is the environment's part: the annotation
\* (0 for none) whose drawText call throws, as it does for a text the font
\* cannot encode.
RECURSIVE drawAnnotations(_, _, _, _, _)
drawAnnotations(docPages, anns, i, drawn, throwAt) ==
  IF i > Len(anns) THEN [drawn |-> drawn, error |-> "none"]
  ELSE LET annotation == anns[i]
       IN  IF skipped(annotation, docPages)
           THEN drawAnnotations(docPages, anns, i + 1, drawn, throwAt)
           ELSE IF annotation.page \notin 1..Len(docPages)
           THEN [drawn |-> drawn, error |-> "TypeError"]
           ELSE IF i = throwAt
           THEN [drawn |-> drawn, error |-> "DrawError"]
           ELSE LET height == pageOf(annotation, docPages).height
                    out == toOutput(annotation, height)
                IN  drawAnnotations(docPages, anns, i + 1,
                      Append(drawn, [page |-> annotation.page,
                                     text |-> annotation.text,
                                     x |-> out.x, y |-> out.y,
                                     size |-> FontSize]),
                      throwAt)

\* The "Download PDF" button is rendered for a PDF in a mounted viewer, which
\* makes handleDownload's own guard true.  The call captures fileData and
\* annotations, copies the bytes and starts PDFDocument.load on the copy;
\* with bytes it cannot read it ends in its catch at once.
\* The record's scale is the view scale at the click; the call does not see
\* it and no action reads it.
handleDownload ==
  /\ status = "COMPLETE"
  /\ fileData # NoFile /\ fileData.isPdf
  /\ Len(exports) < MaxExports
  /\ LET export == [pc |-> "load", name |-> fileData.name,
                    docPages |-> fileData.pages, annotations |-> annotations,
                    drawn |-> <<>>, error |-> "none", scale |-> scale]
     IN  IF readable(bytes)
         THEN /\ exports' = Append(exports, export)
              /\ \E taken \in BOOLEAN :
                   bytes' = handTo(bytes, "saveFilledPdf", slice("original"),
                                   taken)
              /\ alerts' = alerts
         ELSE /\ exports' = Append(exports, [export EXCEPT !.pc = "failed",
                                                           !.error = "TypeError"])
              /\ bytes' = bytes
              /\ alerts' = Append(alerts, DownloadFailed)
  /\ UNCHANGED <<status, fileData, annotations, downloads, renderer,
                 scale, zoomClicks, view, coord, call, pdfRenderer>>

\* A catch block that hands the document over as it is when the export
\* throws: what the source does not do
exportFailsDelivering(e, error, drawn) ==
  /\ exports' = [exports EXCEPT ![e].pc = "failed", ![e].error = error,
                                ![e].drawn = drawn]
  /\ alerts' = Append(alerts, DownloadFailed)
  /\ downloads' = Append(downloads,
       [download |-> "filled_" \o exports[e].name,
        docPages |-> exports[e].docPages, drawn |-> drawn])
  /\ UNCHANGED <<status, fileData, annotations, renderer, scale, zoomClicks,
                 view, coord, bytes, call, pdfRenderer>>

\* catch (error) { console.error(...); alert(...) }
exportFails(e, error, drawn) ==
  /\ exports' = [exports EXCEPT ![e].pc = "failed", ![e].error = error,
                                ![e].drawn = drawn]
  /\ alerts' = Append(alerts, DownloadFailed)
  /\ UNCHANGED <<status, fileData, annotations, downloads, renderer, scale,
                 zoomClicks, view, coord, bytes, call, pdfRenderer>>

\* await PDFDocument.load(originalBuffer) returns; embedFont is started
loadResolve(e) ==
  /\ exports[e].pc = "load"
  /\ exports' = [exports EXCEPT ![e].pc = "embedFont"]
  /\ UNCHANGED <<status, fileData, annotations, alerts, downloads, renderer,
                 scale, zoomClicks, view, coord, bytes, call, pdfRenderer>>

\* await PDFDocument.load(originalBuffer) throws
loadReject(e) ==
  /\ exports[e].pc = "load"
  /\ exportFails(e, "ParseError", <<>>)

\* await pdfDoc.embedFont returns; the loop runs, and pdfDoc.save is started
embedFontResolve(e, throwAt) ==
  /\ exports[e].pc = "embedFont"
  /\ LET r == drawAnnotations(exports[e].docPages, exports[e].annotations, 1,
                              <<>>, throwAt)
     IN  IF r.error = "none"
         THEN /\ exports' = [exports EXCEPT ![e].pc = "save", ![e].drawn = r.drawn]
              /\ UNCHANGED <<status, fileData, annotations, alerts, downloads,
                             renderer, scale, zoomClicks, view, coord, bytes, call,
                             pdfRenderer>>
         ELSE exportFails(e, r.error, r.drawn)

\* await pdfDoc.embedFont throws
embedFontReject(e) ==
  /\ exports[e].pc = "embedFont"
  /\ exportFails(e, "FontError", <<>>)

\* await pdfDoc.save() returns the bytes; handleDownload hands them to the
\* browser as filled_<name>
saveResolve(e) ==
  /\ exports[e].pc = "save"
  /\ exports' = [exports EXCEPT ![e].pc = "done"]
  /\ downloads' = Append(downloads,
       [download |-> "filled_" \o exports[e].name,
        docPages |-> exports[e].docPages, drawn |-> exports[e].drawn])
  /\ UNCHANGED <<status, fileData, annotations, alerts, renderer, scale,
                 zoomClicks, view, coord, bytes, call, pdfRenderer>>

\* await pdfDoc.save() throws
saveReject(e) ==
  /\ exports[e].pc = "save"
  /\ exportFails(e, "SaveError", exports[e].drawn)

(***************************************************************************)
(* The coordinate conversions, applied to a point                          *)
(***************************************************************************)
\* Where the overlay puts the input of an annotation stored at point
displayed(point, s) ==
  LET style == overlayStyle([x |-> point[1], y |-> point[2]], s)
  IN  <<style.left, style.top>>

\* What handlePageDoubleClick stores for a double click at point
clicked(point, s) == <<pdfX(point[1], s), pdfY(point[2], s)>>

NoCoord == [step |-> "none"]

NoCall == [op |-> "none"]

coordDisplay ==
  /\ coord.step = "intrinsic"
  /\ coord' = [coord EXCEPT !.step = "screen",
                            !.value = displayed(coord.value, coord.s1)]
  /\ UNCHANGED <<appVars, view, call, pdfRenderer>>

coordClick ==
  /\ coord.step = "screen"
  /\ coord' = [coord EXCEPT !.step = "stored",
                            !.value = clicked(coord.value, coord.s1)]
  /\ UNCHANGED <<appVars, view, call, pdfRenderer>>

coordRedisplay ==
  /\ coord.step = "stored"
  /\ coord' = [coord EXCEPT !.step = "redisplayed",
                            !.value = displayed(coord.value, coord.s2)]
  /\ UNCHANGED <<appVars, view, call, pdfRenderer>>

(***************************************************************************)
(* The application                                                         *)
(***************************************************************************)
Init ==
  /\ status = "IDLE"
  /\ fileData = NoFile
  /\ annotations = <<>>
  /\ alerts = <<>>
  /\ downloads = <<>>
  /\ exports = <<>>
  /\ renderer = "unmounted"
  /\ scale = InitScale
  /\ zoomClicks = 0
  /\ view = NoViews
  /\ coord = NoCoord
  /\ bytes = NoBytes
  /\ call = NoCall
  /\ pdfRenderer = NoRenderer

\* The steps of the exports under way
ExportSteps ==
  \/ \E e \in 1..Len(exports) : loadResolve(e)
  \/ \E e \in 1..Len(exports) : loadReject(e)
  \/ \E e \in 1..Len(exports) :
       \E throwAt \in 0..Len(exports[e].annotations) : embedFontResolve(e, throwAt)
  \/ \E e \in 1..Len(exports) : embedFontReject(e)
  \/ \E e \in 1..Len(exports) : saveResolve(e)
  \/ \E e \in 1..Len(exports) : saveReject(e)

Export == handleDownload \/ ExportSteps

Annotate ==
  \/ \E pageNumber \in pages, click \in ClickPoints,
        target \in Targets, selection \in Selections :
       handlePageDoubleClick(pageNumber, click, target, selection)
  \/ \E i \in 1..Len(annotations), text \in Texts : InputChange(annotations[i], text)
  \/ \E i \in 1..Len(annotations) : DeleteClick(annotations[i])

Zoom == ZoomOut \/ ZoomIn

\* The steps of the PdfPages' render effects and of their tasks
Render ==
  \/ \E p \in DOMAIN view : \E r \in 1..Len(view[p].renders) : getPageResolve(p, r)
  \/ \E p \in DOMAIN view : \E r \in 1..Len(view[p].renders) : getPageReject(p, r)
  \/ \E p \in DOMAIN view : \E r \in 1..Len(view[p].renders) : renderTaskPaints(p, r)
  \/ \E p \in DOMAIN view : \E r \in 1..Len(view[p].renders) : renderTaskResolve(p, r)
  \/ \E p \in DOMAIN view : \E r \in 1..Len(view[p].renders) : renderTaskReject(p, r)
  \/ \E p \in DOMAIN view : \E r \in 1..Len(view[p].renders) : renderSettled(p, r)
  \/ \E p \in DOMAIN view : \E r \in 1..Len(view[p].renders) : getTextContentResolve(p, r)
  \/ \E p \in DOMAIN view : \E r \in 1..Len(view[p].renders) : getTextContentReject(p, r)

Next ==
  \/ \E file \in Files : handleFileSelect(file)
  \/ runAnalysisComplete
  \/ runAnalysisError
  \/ handleLanguageChange
  \/ resetApp
  \/ loadPdfResolve
  \/ loadPdfReject
  \/ Zoom
  \/ Render
  \/ Annotate
  \/ Export

Spec == Init /\ [][Next]_vars

(***************************************************************************)
(* A PDF on screen: analysed, loaded by PdfRenderer, not annotated yet     *)
(***************************************************************************)
OpenDocument ==
  /\ status = "COMPLETE"
  /\ fileData \in {f \in Files : f.isPdf}
  /\ alerts = <<>>
  /\ downloads = <<>>
  /\ exports = <<>>
  /\ renderer = "loaded"
  /\ scale = InitScale
  /\ zoomClicks = 0
  /\ view = PagesMounted(Len(fileData.pages), InitScale)
  /\ bytes = [content |-> "intact",
              handed  |-> {<<"extractTextFromPdf", "copy">>, <<"loadPdf", "copy">>}]
  /\ call = NoCall
  /\ pdfRenderer = NoRenderer

InitOpen == OpenDocument /\ annotations = <<>> /\ coord = NoCoord

\* Zooming and annotating an open document.  The steps of the render effects
\* are left out: they read and write view only, which no action here reads.
NextAnnotate == Zoom \/ Annotate

SpecAnnotate == InitOpen /\ [][NextAnnotate]_vars

(***************************************************************************)
(* The render effect of the page-view of an open one-page document under   *)
(* zoom                                                                    *)
(***************************************************************************)
InitRender == InitOpen /\ Len(fileData.pages) = 1

NextRender == Zoom \/ Render

SpecRender == InitRender /\ [][NextRender]_vars

\* The same under the scheduling of the event loop: a continuation that is
\* ready to run, or a task that can go on, is not left waiting forever
SpecRenderFair == InitRender /\ [][NextRender]_vars /\ WF_vars(Render)

(***************************************************************************)
(* PdfRenderer on its own, rendered with the bytes of one PDF and then     *)
(* with others                                                             *)
(***************************************************************************)
InitLoad ==
  /\ status = "IDLE"
  /\ fileData = NoFile
  /\ annotations = <<>>
  /\ alerts = <<>>
  /\ downloads = <<>>
  /\ exports = <<>>
  /\ renderer = "unmounted"
  /\ scale = InitScale
  /\ zoomClicks = 0
  /\ view = NoViews
  /\ coord = NoCoord
  /\ bytes = NoBytes
  /\ call = NoCall
  /\ \E file \in {f \in Files : f.isPdf} :
       pdfRenderer = PdfRendererMounted(file)

NextLoad ==
  \/ \E file \in Files : pdfDataChange(file)
  \/ \E i \in 1..Len(pdfRenderer.loads) : getDocumentResolve(i)
  \/ \E i \in 1..Len(pdfRenderer.loads) : getDocumentReject(i)

SpecLoad == InitLoad /\ [][NextLoad]_vars

(***************************************************************************)
(* Sequences of zoom clicks from scale 1.0                                 *)
(***************************************************************************)
NextZoom == zoomOutClick \/ zoomInClick

SpecZoom == InitOpen /\ [][NextZoom]_vars

(***************************************************************************)
(* One point through the coordinate conversions                            *)
(***************************************************************************)
\* Points of a page at scale 1.0
IntrinsicPoints ==
  { <<Num(120), Num(200)>>, <<Num(3), Num(45)>>, <<Num(300), Num(400)>> }

\* The scales n zoom clicks lead to from the scales S
RECURSIVE ZoomScales(_, _)
ZoomScales(S, n) ==
  IF n = 0 THEN S
  ELSE ZoomScales(S \cup {zoomIn(s) : s \in S} \cup {zoomOut(s) : s \in S}, n - 1)

InitCoord ==
  /\ OpenDocument
  /\ annotations = <<>>
  /\ \E p \in IntrinsicPoints :
       \E s1 \in ZoomScales({InitScale}, MaxZoomClicks) :
         \E s2 \in ZoomScales({InitScale}, MaxZoomClicks) :
           coord = [step |-> "intrinsic", p |-> p, s1 |-> s1, s2 |-> s2,
                    value |-> p]

NextCoord == coordDisplay \/ coordClick \/ coordRedisplay

SpecCoord == InitCoord /\ [][NextCoord]_vars

(***************************************************************************)
(* The canvas of one page at one scale on one screen                       *)
(***************************************************************************)
InitCanvas ==
  /\ OpenDocument
  /\ annotations = <<>>
  /\ \E n \in 1..Len(fileData.pages) :
       \E s \in ZoomScales({InitScale}, MaxZoomSteps) :
         \E devicePixelRatio \in DevicePixelRatios :
           coord = [step |-> "page", page |-> fileData.pages[n], s |-> s,
                    devicePixelRatio |-> devicePixelRatio]

SpecCanvas == InitCanvas /\ [][sizeCanvas]_vars

(***************************************************************************)
(* The text layer of a page of one or two text items at one scale          *)
(***************************************************************************)
InitTextLayer ==
  /\ OpenDocument
  /\ annotations = <<>>
  /\ \E i \in TextItems, j \in TextItems :
       \E items \in { <<i>>, <<i, j>> } :
         \E s \in ZoomScales({InitScale}, MaxZoomClicks) :
           coord = [step |-> "textContent", items |-> items, s |-> s]

SpecTextLayer == InitTextLayer /\ [][buildTextLayer]_vars

(***************************************************************************)
(* One export of a document and an annotation list                         *)
(***************************************************************************)
\* Stored positions: a gesture at (120, 200) at scale 1.0 and one at scale 1.2
StoredPoints ==
  { <<Num(120), Num(200)>>,
    <<FDiv(Num(120), zoomIn(InitScale)), FDiv(Num(200), zoomIn(InitScale))>> }

\* The annotations saveFilledPdf may be handed for a document: page is any
\* number from 0 to one past the last page.  saveFilledPdf does not read id.
StoredAnnotations(file) ==
  { [id |-> "id1", page |-> n, x |-> p[1], y |-> p[2], text |-> t] :
      n \in 0..(Len(file.pages) + 1), p \in StoredPoints, t \in Texts }

AnnotationLists(file) ==
  UNION { [1..n -> StoredAnnotations(file)] : n \in 0..MaxAnnotations }

InitExport ==
  /\ OpenDocument
  /\ annotations \in AnnotationLists(fileData)
  /\ coord = NoCoord

\* handleDownload is called once, and its export runs to its end
NextExport ==
  \/ exports = <<>> /\ handleDownload
  \/ ExportSteps

SpecExport == InitExport /\ [][NextExport]_vars

(***************************************************************************)
(* Exports of an annotated document while the view is zoomed               *)
(***************************************************************************)
\* "John Doe" on page 1, alone and followed by an empty field on page 2
ExampleLists ==
  LET a == [id |-> "id1", page |-> 1, x |-> Num(120), y |-> Num(200),
            text |-> "John Doe"]
      b == [id |-> "id2", page |-> 2,
            x |-> FDiv(Num(120), zoomIn(InitScale)),
            y |-> FDiv(Num(200), zoomIn(InitScale)), text |-> ""]
  IN  { <<a>>, <<a, b>> }

InitAnnotated ==
  /\ OpenDocument
  /\ Len(fileData.pages) > 1
  /\ annotations \in ExampleLists
  /\ coord = NoCoord

\* The steps of the render effects are left out, as in NextAnnotate
NextZoomExport == Zoom \/ Export

SpecZoomExport == InitAnnotated /\ [][NextZoomExport]_vars

(***************************************************************************)
(* The render effects of the page-views of an annotated document of more   *)
(* than one page, at the scale it was opened at                            *)
(***************************************************************************)
SpecPages == InitAnnotated /\ [][Render]_vars

(***************************************************************************)
(* The annotation list under calls of its three handlers                   *)
(***************************************************************************)
\* The records a caller may add to the list of a document: any id, any page
\* of the document, any text
CallerRecords(file) ==
  { [id |-> id, page |-> n, x |-> Num(120), y |-> Num(200), text |-> t] :
      id \in Ids, n \in 1..Len(file.pages), t \in Texts }

NextStore ==
  \/ \E a \in CallerRecords(fileData) : onAddAnnotation(a)
  \/ \E id \in Ids, text \in Texts : onUpdateAnnotation(id, text)
  \/ \E id \in Ids : onRemoveAnnotation(id)

SpecStore == InitOpen /\ [][NextStore]_vars

(***************************************************************************)
(* The double clicks on the pages of an open document, each kept in call   *)
(***************************************************************************)
NextGesture ==
  \E pageNumber \in pages, click \in ClickPoints,
     target \in Targets, selection \in Selections :
    onDoubleClick(pageNumber, click, target, selection)

SpecGesture == InitOpen /\ [][NextGesture]_vars

(***************************************************************************)
(* Double clicks on the page of an open one-page document while it is      *)
(* zoomed and rendered                                                     *)
(***************************************************************************)
NextGestureRender ==
  \/ \E pageNumber \in pages, click \in ClickPoints :
       onDoubleClick(pageNumber, click, "page", <<>>)
  \/ Zoom
  \/ Render

SpecGestureRender == InitRender /\ [][NextGestureRender]_vars

(***************************************************************************)
(* Sessions: documents selected, analysed, viewed, zoomed, exported and    *)
(* given up, one after the other                                           *)
(***************************************************************************)
Session ==
  \/ \E file \in Files : handleFileSelect(file)
  \/ runAnalysisComplete
  \/ runAnalysisError
  \/ handleLanguageChange
  \/ resetApp
  \/ loadPdfResolve
  \/ loadPdfReject

\* The steps of the render effects are left out, as in NextAnnotate; the
\* annotation list stays empty
NextBytes == Session \/ Zoom \/ Export

SpecBytes == Init /\ [][NextBytes]_vars

\* Sessions in which text fields are put on the documents and taken off, and
\* "Download PDF" is clicked once.  The fields keep the empty text they are created
\* with: what is typed into a field changes neither the list's length nor
\* the document the field is on.  The steps of the exports under way are left
\* out: they read and write the record of their export only.
NextSession ==
  \/ Session
  \/ \E pageNumber \in pages, click \in ClickPoints,
        target \in Targets, selection \in Selections :
       handlePageDoubleClick(pageNumber, click, target, selection)
  \/ \E i \in 1..Len(annotations) : DeleteClick(annotations[i])
  \/ exports = <<>> /\ handleDownload

SpecSession == Init /\ [][NextSession]_vars

(***************************************************************************)
(* Properties of zooming and annotating (SpecAnnotate)                     *)
(***************************************************************************)
\* C2: a step that lengthens the annotation list is an accepted creation
\* gesture: the new list is the old one followed by exactly one record, and
\* for the page N of that record, a displayed one, and some point P of it the
\* record is {page: N, x: P.x / scale, y: P.y / scale, text: ""} under a
\* generated id.
C2_GestureAppendsOneRecord ==
  [][Len(annotations') > Len(annotations) =>
       LET r == annotations'[Len(annotations')]
       IN  /\ annotations' = Append(annotations, r)
           /\ r.page \in pages
           /\ r.text = ""
           /\ r.id \in Ids
           /\ \E click \in ClickPoints :
                /\ r.x = FDiv(click[1], scale)
                /\ r.y = FDiv(click[2], scale)]_vars

\* C2 happens: gestures at (120, 200) on page 1 were accepted at scale 1.0,
\* which stored (120, 200), and at scale 0.8, which stored (150, 250).
C2_Witness ==
  /\ Len(annotations) = 2
  /\ \E i \in 1..2 :
       /\ annotations[i].page = 1 /\ annotations[i].text = ""
       /\ annotations[i].x = Num(120) /\ annotations[i].y = Num(200)
  /\ \E i \in 1..2 :
       /\ annotations[i].page = 1
       /\ annotations[i].x = Num(150) /\ annotations[i].y = Num(250)

\* C3: a step that changes the view scale leaves the annotation list as it
\* was: the id, page, x, y and text of every stored annotation are unchanged.
C3_ZoomKeepsAnnotations ==
  [][scale' # scale => annotations' = annotations]_vars

\* C3 happens: an annotation stored at (120, 200), so created at scale 1.0, is
\* in the list after the one zoom click that moved the scale away from 1.0.
C3_Witness ==
  /\ zoomClicks = 1
  /\ scale # InitScale
  /\ \E i \in 1..Len(annotations) :
       annotations[i].x = Num(120) /\ annotations[i].y = Num(200)

\* C5: the input of every annotation of a displayed page is positioned at
\* (x * scale, y * scale).  The overlay subtracts 7 from the ordinate, so this
\* fails as soon as an annotation is displayed.
C5_InputAtScaledPoint ==
  \A i \in 1..Len(annotations) :
    annotations[i].page \in pages =>
      overlayStyle(annotations[i], scale) =
        [left |-> FMul(annotations[i].x, scale),
         top  |-> FMul(annotations[i].y, scale)]

\* C17: no two records of the annotation list have the same id.  The id of a
\* gesture is Math.random().toString(36).substr(2, 9), which nothing compares
\* with the ids in the list, and handleAddAnnotation appends whatever id it
\* is handed: two gestures that draw the same string leave two records of one
\* id.
C17_UniqueIds ==
  \A i, j \in 1..Len(annotations) :
    i # j => annotations[i].id # annotations[j].id

(***************************************************************************)
(* Properties of one export (SpecExport)                                   *)
(***************************************************************************)
\* The annotations of export e whose page is a page of its document
InRange(e) ==
  SelectSeq(exports[e].annotations,
            LAMBDA a : a.page \in 1..Len(exports[e].docPages))

\* The loop of export e has run to its end
LoopRan(e) == exports[e].pc \in {"save", "done"}

Failed(e) == exports[e].pc = "failed"

Done(e) == exports[e].pc = "done"

\* C6: once the loop of an export has run, the document holds one drawText
\* for each annotation whose page is in range, in list order: the annotation's
\* text, on page annotation.page, at (x, H - y - 12) with H the height of
\* that page.
C6_DrawnAtFlippedPoint ==
  \A e \in 1..Len(exports) :
    LoopRan(e) =>
      /\ Len(exports[e].drawn) = Len(InRange(e))
      /\ \A k \in 1..Len(InRange(e)) :
           LET a == InRange(e)[k]
               d == exports[e].drawn[k]
               H == exports[e].docPages[a.page].height
           IN  /\ d.page = a.page
               /\ d.text = a.text
               /\ d.x = a.x
               /\ d.y = FSub(FSub(H, a.y), Num(12))

\* C6 happens: "John Doe" stored at (120, 200) on the 800-high page 1 is in a
\* delivered document at (120, 588) on page 1, and so is a text of the
\* 600-high page 2.
C6_Witness ==
  \E i \in 1..Len(downloads) :
    /\ downloads[i].docPages[1].height = Num(800)
    /\ \E k \in 1..Len(downloads[i].drawn) :
         LET d == downloads[i].drawn[k]
         IN  d.page = 1 /\ d.text = "John Doe" /\ d.x = Num(120) /\ d.y = Num(588)
    /\ \E k \in 1..Len(downloads[i].drawn) :
         downloads[i].drawn[k].page = 2 /\ downloads[i].drawn[k].y = Num(388)

\* Export e was handed an annotation on the page after the last one, and none
\* on a page before the first
HasPageAfterLast(e) ==
  /\ \E i \in 1..Len(exports[e].annotations) :
       exports[e].annotations[i].page = Len(exports[e].docPages) + 1
  /\ \A i \in 1..Len(exports[e].annotations) :
       exports[e].annotations[i].page >= 1

\* C7: an export handed an annotation with page = pageCount + 1 never fails
\* on account of a page number, draws nothing for that annotation and draws
\* every annotation that is in range, and the annotation list still is the
\* one the export was handed, the out-of-range annotation included.
C7_PageAfterLastSkipped ==
  \A e \in 1..Len(exports) :
    HasPageAfterLast(e) =>
      /\ exports[e].error # "TypeError"
      /\ LoopRan(e) =>
           /\ \A k \in 1..Len(exports[e].drawn) :
                exports[e].drawn[k].page <= Len(exports[e].docPages)
           /\ [k \in 1..Len(exports[e].drawn) |->
                 <<exports[e].drawn[k].page, exports[e].drawn[k].text>>]
              = [k \in 1..Len(InRange(e)) |->
                 <<InRange(e)[k].page, InRange(e)[k].text>>]
      /\ annotations = exports[e].annotations

\* C7 happens: an export handed an in-range annotation and one on the page
\* after the last has delivered a document with the one text, and the list
\* still holds both.
C7_Witness ==
  \E e \in 1..Len(exports) :
    /\ HasPageAfterLast(e)
    /\ Done(e)
    /\ Len(exports[e].annotations) = 2
    /\ Len(exports[e].drawn) = 1
    /\ downloads = <<[download |-> "filled_" \o exports[e].name,
                      docPages |-> exports[e].docPages,
                      drawn |-> exports[e].drawn]>>
    /\ \E i \in 1..Len(annotations) :
         annotations[i].page = Len(fileData.pages) + 1

\* C8: no export fails on account of a page number, and once its loop has run
\* an export has drawn the annotations with a page in [1, pageCount] and
\* skipped every other one.  The loop only tests page > pageCount; for a page
\* below 1 it reads pages[page - 1], which is undefined, and getSize throws.
C8_OutOfRangeSkipped ==
  \A e \in 1..Len(exports) :
    /\ exports[e].error # "TypeError"
    /\ LoopRan(e) =>
         /\ Len(exports[e].drawn) = Len(InRange(e))
         /\ \A k \in 1..Len(exports[e].drawn) :
              exports[e].drawn[k].page \in 1..Len(exports[e].docPages)

\* C9: every failed export raised one failure notification and nothing else:
\* there is one alert, the failure message, for each failed export; there is
\* one delivered document for each export that ended well, so none for a
\* failed one, whatever it had drawn; and the annotation list and the file
\* are the ones the export was handed.
C9_AllOrNothing ==
  /\ Len(alerts) = Cardinality({e \in 1..Len(exports) : Failed(e)})
  /\ \A i \in 1..Len(alerts) : alerts[i] = DownloadFailed
  /\ Len(downloads) = Cardinality({e \in 1..Len(exports) : Done(e)})
  /\ \A e \in 1..Len(exports) :
       Failed(e) =>
         /\ annotations = exports[e].annotations
         /\ fileData.pages = exports[e].docPages
         /\ fileData.name = exports[e].name

\* C9 happens: an export failed after it had drawn a text; there is one
\* alert and nothing was delivered.
C9_Witness ==
  \E e \in 1..Len(exports) :
    /\ Failed(e)
    /\ exports[e].drawn # <<>>
    /\ alerts = <<DownloadFailed>>
    /\ downloads = <<>>

(***************************************************************************)
(* Properties of exports under zoom (SpecZoomExport)                       *)
(***************************************************************************)
\* C10: two exports of the same document and the same annotation records
\* have drawn the same texts at the same positions, whatever the view scale
\* was when each was started or ran.
C10_ExportIgnoresZoom ==
  \A e1, e2 \in 1..Len(exports) :
    /\ LoopRan(e1) /\ LoopRan(e2)
    /\ exports[e1].docPages = exports[e2].docPages
    /\ exports[e1].annotations = exports[e2].annotations
    => exports[e1].drawn = exports[e2].drawn

\* C10 happens: two exports started at different view scales have both
\* delivered a document with a text in it.
C10_Witness ==
  \E e1, e2 \in 1..Len(exports) :
    /\ Done(e1) /\ Done(e2)
    /\ exports[e1].scale # exports[e2].scale
    /\ exports[e1].drawn # <<>>
    /\ Len(downloads) = 2

(***************************************************************************)
(* Properties of the annotation list's handlers (SpecStore)                *)
(***************************************************************************)
\* The list the last call was applied to holds a record of the call's id
Stored == \E i \in 1..Len(call.before) : call.before[i].id = call.id

\* C12: after update(id, text) with an id that no record of the list has, the
\* list is the list the call was applied to: the same records with the same
\* fields in the same order.
C12_UpdateAbsentIsNoOp ==
  (call.op = "update" /\ ~Stored) => annotations = call.before

\* C12 happens: "John Doe" was the text of an update under an id that the one
\* record of the list does not have.
C12_Witness ==
  /\ call.op = "update" /\ ~Stored
  /\ call.text = "John Doe"
  /\ Len(call.before) = 1
  /\ call.before[1].text = ""

\* C13: after update(id, text) with a stored id the list has as many records
\* as before; each record has the id, page, x and y it had, in the place it
\* had; a record of that id has the new text, and a record of another id is
\* what it was.
C13_UpdateChangesTextOnly ==
  (call.op = "update" /\ Stored) =>
    /\ Len(annotations) = Len(call.before)
    /\ \A i \in 1..Len(call.before) :
         /\ annotations[i].id = call.before[i].id
         /\ annotations[i].page = call.before[i].page
         /\ annotations[i].x = call.before[i].x
         /\ annotations[i].y = call.before[i].y
         /\ annotations[i].text = IF call.before[i].id = call.id
                                  THEN call.text ELSE call.before[i].text

\* C13 happens: the second of two records of different ids, on page 2, was
\* given the text "John Doe" and the first one still has the empty text.
C13_Witness ==
  /\ call.op = "update" /\ Stored
  /\ Len(call.before) = 2
  /\ call.before[1].id # call.id
  /\ call.before[2].id = call.id /\ call.before[2].text = ""
  /\ annotations[2].text = "John Doe" /\ annotations[2].page = 2
  /\ annotations[1].text = ""

\* seq without its records of the id, in the order of seq
RECURSIVE Without(_, _)
Without(seq, id) ==
  IF seq = <<>> THEN <<>>
  ELSE IF Head(seq).id = id THEN Without(Tail(seq), id)
       ELSE <<Head(seq)>> \o Without(Tail(seq), id)

\* C14: after remove(id) no record of the list has the id, and the list is
\* the one the call was applied to without its records of that id, the others
\* as they were and in the order they had; a remove(id) applied to a list
\* without the id, as a second remove(id) is, has left the list as it was,
\* and one more remove(id) would.
C14_RemoveIdempotent ==
  call.op = "remove" =>
    /\ \A i \in 1..Len(annotations) : annotations[i].id # call.id
    /\ annotations = Without(call.before, call.id)
    /\ ~Stored => annotations = call.before
    /\ handleRemoveAnnotation(annotations, call.id) = annotations

\* C14 happens: remove(id) was called on a list of one record of another id,
\* where no record has the id: after a first remove(id), or for an id never
\* stored.
C14_Witness ==
  /\ call.op = "remove" /\ ~Stored
  /\ Len(call.before) = 1
  /\ annotations = call.before

\* C16: after add(annotation) the list is the list the call was applied to,
\* every record in its place, followed by the added record, also when a
\* record of the same id was stored already.
C16_AddAppends ==
  call.op = "add" =>
    /\ Len(annotations) = Len(call.before) + 1
    /\ \A i \in 1..Len(call.before) : annotations[i] = call.before[i]
    /\ annotations[Len(annotations)] = call.record

\* C16 happens: a record was added under the id of the one stored record, and
\* the list holds both.
C16_Witness ==
  /\ call.op = "add"
  /\ Len(call.before) = 1
  /\ call.before[1].id = call.record.id
  /\ Len(annotations) = 2
  /\ annotations[1].id = annotations[2].id

\* C15: the list a page-view is passed holds the stored records of its page
\* and no other: as many records as the list has for the page, each with that
\* page number, the k-th of them being the k-th record of the page in the
\* list; and every record of a displayed page is passed to one page-view,
\* the one of its page.
C15_QueryByPage ==
  /\ \A p \in pages :
       LET q == pageAnnotations(p)
           idx == {i \in 1..Len(annotations) : annotations[i].page = p}
           rank(i) == Cardinality({j \in idx : j <= i})
       IN  /\ Len(q) = Cardinality(idx)
           /\ \A k \in 1..Len(q) : q[k].page = p
           /\ \A i \in idx : q[rank(i)] = annotations[i]
  /\ \A i \in 1..Len(annotations) :
       {p \in pages : \E k \in 1..Len(pageAnnotations(p)) :
                        pageAnnotations(p)[k] = annotations[i]}
         = {annotations[i].page}

\* C15 happens: the list holds a record of page 2 followed by one of page 1,
\* and each of the two page-views is passed the one record of its page.
C15_Witness ==
  /\ pages = {1, 2}
  /\ Len(annotations) = 2
  /\ annotations[1].page = 2 /\ annotations[2].page = 1
  /\ pageAnnotations(1) = <<annotations[2]>>
  /\ pageAnnotations(2) = <<annotations[1]>>

(***************************************************************************)
(* Properties of sessions (SpecSession)                                    *)
(***************************************************************************)
\* C18: a step that changes the selected document, to another one or to none,
\* leaves the annotation list empty, and the list is empty while no document
\* is selected; so every record of the list was created on the selected
\* document, and is on one of its pages; and an export takes the selected
\* document together with the list as it is at the click.
C18_NewDocumentStartsEmpty ==
  /\ [](fileData = NoFile => annotations = <<>>)
  /\ [](\A i \in 1..Len(annotations) :
          annotations[i].page \in 1..Len(fileData.pages))
  /\ [][fileData' # fileData => annotations' = <<>>]_vars
  /\ [][Len(exports') > Len(exports) =>
          LET export == exports'[Len(exports')]
          IN  /\ export.name = fileData.name
              /\ export.docPages = fileData.pages
              /\ export.annotations = annotations]_vars

\* C18 happens: the export of form.pdf was started with two fields, one of
\* them on its page 2; form.pdf was given up since, and letter.pdf is on
\* screen with the one field that was put on it.
C18_Witness ==
  /\ Len(exports) = 1
  /\ exports[1].name = "form.pdf"
  /\ Len(exports[1].annotations) = 2
  /\ exports[1].annotations[2].page = 2
  /\ fileData.name = "letter.pdf"
  /\ renderer = "loaded"
  /\ Len(annotations) = 1
  /\ annotations[1].page = 1

(***************************************************************************)
(* Properties of the bytes of the document (SpecBytes)                     *)
(***************************************************************************)
\* C11: whatever was analysed, viewed, zoomed and exported, every callee that
\* was handed bytes of the document was handed a copy, never the original
\* buffer; the original buffer of a selected PDF is intact, so that a later
\* load or export can read it; and no export has failed for bytes it could
\* not read.
C11_ParsersGetCopies ==
  /\ \A h \in bytes.handed : h[2] = "copy"
  /\ fileData.isPdf => readable(bytes)
  /\ \A e \in 1..Len(exports) : exports[e].error # "TypeError"

\* C11 happens: a PDF was analysed, loaded by the viewer, zoomed and exported
\* twice, and both exports have delivered a document.
C11_Witness ==
  /\ fileData.isPdf
  /\ bytes.handed = {<<"extractTextFromPdf", "copy">>, <<"loadPdf", "copy">>,
                     <<"saveFilledPdf", "copy">>}
  /\ renderer = "loaded"
  /\ zoomClicks > 0
  /\ Len(exports) = 2
  /\ \A e \in 1..2 : Done(e) /\ exports[e].name = fileData.name
  /\ Len(downloads) = 2

(***************************************************************************)
(* Properties of the coordinate conversions (SpecCoord)                    *)
(***************************************************************************)
\* C4: a point (x, y) displayed at scale s1, stored from a double click at
\* the place where it is displayed, and displayed again at scale s2 is where
\* (x, y) itself is displayed at scale s2.  The overlay's ordinate is
\* y * scale - 7, so the stored point is 7 / s1 above (x, y); and in floating
\* point x * s1 / s1 is not always x.
C4_ZoomInvariance ==
  coord.step = "redisplayed" =>
    coord.value = displayed(coord.p, coord.s2)

(***************************************************************************)
(* Properties of the render effect (SpecRender)                            *)
(***************************************************************************)
\* The render requested last
Latest(v) == Len(v.renders)

\* What the page-view shows
Visible(v) == <<v.loading, v.canvas, v.textLayer>>

\* C1: on every page-view only the render requested last changes what the
\* page-view shows.  A step of a superseded render, whatever await it comes
\* from, leaves the loading state, the canvas and the text layer as they are;
\* a step that paints the canvas, rewrites the text layer or clears the
\* loading state does it for the latest render; and whenever the loading
\* state is clear the canvas and the text layer are the completed output of
\* the latest render.
C1_OnlyLatestRenderVisible ==
  /\ [](\A p \in DOMAIN view :
          ~view[p].loading =>
            /\ view[p].canvas = [render |-> Latest(view[p]), painted |-> "full"]
            /\ view[p].textLayer = Latest(view[p]))
  /\ [][\A p \in DOMAIN view :
          /\ \A r \in 1..Len(view[p].renders) :
               (view[p].renders[r].isCancelled
                  /\ view'[p].renders[r].pc # view[p].renders[r].pc)
               => Visible(view'[p]) = Visible(view[p])
          /\ view'[p].canvas # view[p].canvas =>
               view'[p].canvas.render = Latest(view'[p])
          /\ view'[p].textLayer # view[p].textLayer =>
               view'[p].textLayer = Latest(view'[p])
          /\ (view[p].loading /\ ~view'[p].loading) =>
               view'[p].textLayer = Latest(view'[p])]_vars

\* C19: a page-view whose latest render has failed, its raster rejected with
\* an error that is no cancellation and its closure through with the catch,
\* is out of the loading state.  The catch logs the error and returns: it
\* does not call setLoading, and PdfPage has no state for an error, so the
\* page-view stays under its loading overlay.
C19_FailedRenderLeavesLoading ==
  \A p \in DOMAIN view :
    (/\ view[p].tasks[Latest(view[p])] = "failed"
     /\ view[p].renders[Latest(view[p])].pc = "returned")
    => ~view[p].loading

\* The raster of a render of page p fails in this step, or the closure of a
\* render whose raster has failed goes through its catch
FailureStep(p) ==
  \E r \in 1..Len(view[p].renders) :
    \/ view[p].tasks[r] = "running" /\ view'[p].tasks[r] = "failed"
    \/ /\ view[p].tasks[r] = "failed"
       /\ view[p].renders[r].pc = "render"
       /\ view'[p].renders[r].pc = "returned"

\* The latest render of page p has its raster and its text layer on screen,
\* and the loading state is clear
Ready(v) ==
  /\ ~v.loading
  /\ v.canvas = [render |-> Latest(v), painted |-> "full"]
  /\ v.textLayer = Latest(v)

\* C20: a step in which the raster of a page fails, or in which the failure
\* is caught, changes nothing of any other page-view and leaves the
\* annotation list as it is; and whatever has failed on other pages, a
\* page-view whose latest render has finished its raster and built its text
\* layer is Ready.
C20_RenderFailureIsolated ==
  /\ [][\A p \in DOMAIN view :
          FailureStep(p) =>
            /\ \A q \in DOMAIN view \ {p} : view'[q] = view[q]
            /\ annotations' = annotations]_vars
  /\ [](\A q \in DOMAIN view :
          (view[q].tasks[Latest(view[q])] = "finished"
             /\ view[q].textLayer = Latest(view[q]))
          => Ready(view[q]))

\* C20 happens: the raster of page 1 has failed while the raster of page 2
\* was running, its closure is through with the catch, and page 2 is Ready
\* at the same scale; the list holds its annotations.
C20_Witness ==
  /\ view[1].tasks[Latest(view[1])] = "failed"
  /\ view[1].renders[Latest(view[1])].pc = "returned"
  /\ view[1].loading
  /\ Ready(view[2])
  /\ view[2].renders[Latest(view[2])].scale = scale
  /\ annotations # <<>>

\* C1 happens: the render of page 1 at scale 1.0 was superseded by a second
\* one after its raster had finished, its closure has returned since, and the
\* second render has completed: its raster and its text layer show, loading
\* is clear.
C1_Witness ==
  /\ Len(view[1].renders) = 2
  /\ view[1].renders[1].scale = InitScale
  /\ view[1].renders[2].scale # InitScale
  /\ view[1].renders[1].isCancelled
  /\ view[1].renders[1].pc = "returned"
  /\ view[1].tasks[1] = "finished"
  /\ ~view[1].loading
  /\ view[1].canvas = [render |-> 2, painted |-> "full"]
  /\ view[1].textLayer = 2

(***************************************************************************)
(* The rasterization tasks of a page-view (SpecRender)                     *)
(***************************************************************************)
\* The tasks of page-view v that were started and have neither completed nor
\* been cancelled
RunningTasks(v) == { r \in 1..Len(v.tasks) : v.tasks[r] = "running" }

\* C21: at every moment each page-view has at most one rasterization task
\* that was started and is neither completed nor cancelled.  A new render
\* request leaves no task of the page-view running: the cleanup of the run
\* before cancels the task the ref holds; and a step that starts a task
\* leaves that task the only one running.
C21_OneRunningTask ==
  /\ [](\A p \in DOMAIN view : Cardinality(RunningTasks(view[p])) <= 1)
  /\ [][\A p \in DOMAIN view :
          /\ Len(view'[p].renders) > Len(view[p].renders) =>
               RunningTasks(view'[p]) = {}
          /\ \A r \in RunningTasks(view'[p]) \ RunningTasks(view[p]) :
               RunningTasks(view'[p]) = {r}]_vars

\* C21 happens: a scale change has arrived while the task of the first render
\* was running, the task was cancelled, and the task of the second render is
\* running.
C21_Witness ==
  /\ Len(view[1].renders) = 2
  /\ view[1].tasks[1] = "cancelled"
  /\ view[1].tasks[2] = "running"
  /\ view[1].renderTaskRef = 2

(***************************************************************************)
(* A scale change on a Ready page-view (SpecRenderFair)                    *)
(***************************************************************************)
\* The page numbers of the documents
PageNumbers == UNION { DOMAIN f.pages : f \in Files }

\* A step of the latest render of page-view v has failed: its closure is
\* through, by its catch, and has not built the text layer
LatestFailed(v) ==
  /\ v.renders[Latest(v)].pc = "returned"
  /\ v.textLayer # Latest(v)

\* C22: a scale change takes a Ready page-view back to Rendering, the
\* loading state set; and a page-view in the loading state eventually is
\* Ready, for the render requested last, unless a step of that render fails.
C22_ScaleChangeRendersAgain ==
  /\ [][\A p \in DOMAIN view :
          (Ready(view[p]) /\ scale' # scale) =>
            /\ view'[p].loading
            /\ ~Ready(view'[p])
            /\ Latest(view'[p]) = Latest(view[p]) + 1
            /\ view'[p].renders[Latest(view'[p])].scale = scale']_vars
  /\ \A p \in PageNumbers :
       (p \in DOMAIN view /\ view[p].loading)
         ~> (p \in DOMAIN view /\ (Ready(view[p]) \/ LatestFailed(view[p])))

\* C22 happens: the page-view was Ready at scale 1.0, raster and text layer
\* of the first render on screen, when the scale changed; it is in the
\* loading state, and the render for the new scale waits for its page.
C22_Witness ==
  /\ scale # InitScale
  /\ Len(view[1].renders) = 2
  /\ view[1].renders[1].pc = "returned"
  /\ view[1].canvas = [render |-> 1, painted |-> "full"]
  /\ view[1].textLayer = 1
  /\ view[1].loading
  /\ view[1].renders[2] = [scale |-> scale, isCancelled |-> FALSE, pc |-> "getPage"]

(***************************************************************************)
(* PdfRenderer under a change of its bytes (SpecLoad)                      *)
(***************************************************************************)
\* The run of loadPdf started last, for the bytes supplied last
LatestLoad == Len(pdfRenderer.loads)

\* C23: when PdfRenderer is handed new bytes while the parse of earlier
\* bytes is in progress, the result of the superseded parse is discarded.  A
\* superseded run of loadPdf that comes back from its await changes neither
\* the document, nor the page list, nor the error; and once the parse of the
\* bytes supplied last has returned, PdfRenderer shows their document and
\* their pages.  loadPdf carries no token and the effect has no cleanup: a
\* run that comes back late sets pdfDoc, pages or error like any other.
C23_LatestBytesShown ==
  /\ [](LatestLoad > 0 =>
         (pdfRenderer.loads[LatestLoad].pc = "resolved" =>
            PdfRendererShows(pdfRenderer) =
              [pdfDoc |-> pdfRenderer.pdfData,
               pages  |-> [n \in 1..Len(pdfRenderer.pdfData.pages) |-> n]]))
  /\ [][\A i \in 1..Len(pdfRenderer.loads) :
          (i < LatestLoad
             /\ pdfRenderer'.loads[i].pc # pdfRenderer.loads[i].pc)
          => /\ pdfRenderer'.pdfDoc = pdfRenderer.pdfDoc
             /\ pdfRenderer'.pages = pdfRenderer.pages
             /\ pdfRenderer'.error = pdfRenderer.error]_vars

(***************************************************************************)
(* The double clicks that store nothing (SpecGesture)                      *)
(***************************************************************************)
\* The double click kept in call hit an annotation's input or delete button
OnInputOrDelete == call.target \in {"input", "button"}

\* The selection holds a character that is no white space
HasText(selection) ==
  \E k \in 1..Len(selection) : selection[k] \notin WhiteSpace

\* C24 as stated: a double click whose target is inside an annotation's
\* input or delete button, or that happens while the text selection is not
\* empty, leaves the annotation list as it was.  The selection is trimmed
\* before it is tested: a selection of white space only is not empty, and the
\* double click is accepted.
C24_IgnoredGestures ==
  (call.op = "doubleClick" /\ (OnInputOrDelete \/ call.selection # <<>>))
  => annotations = call.before

\* C24 as amended: it is a selection that holds a character other than white
\* space that has the double click ignored.
C24_IgnoredGesturesTrimmed ==
  (call.op = "doubleClick" /\ (OnInputOrDelete \/ HasText(call.selection)))
  => annotations = call.before

\* C24 happens: a double click on the page itself, while " text " was
\* selected, has left a list of one annotation as it was.
C24_Witness ==
  /\ call.op = "doubleClick"
  /\ call.target = "page"
  /\ call.selection = <<" ", "t", "e", "x", "t", " ">>
  /\ Len(call.before) = 1
  /\ annotations = call.before

(***************************************************************************)
(* The scale under zoom clicks (SpecZoom)                                  *)
(***************************************************************************)
\* 0.5 <= s <= 3.0
InZoomRange(s) == ~FLess(s, MinScale) /\ ~FLess(MaxScale, s)

\* |a - b|
Distance(a, b) == FSub(FMax(a, b), FMin(a, b))

\* a and b differ by less than 2^-50: they are equal but for the rounding of
\* a few binary64 operations on numbers of this size
Near(a, b) == FLess(Distance(a, b), Round(1, <<1>>, -50, FALSE))

\* The click kept in call has moved the scale by 0.2
SteppedBy02 == Near(Distance(call.before, call.after), ZoomStep)

\* C25 as stated: after any sequence of zoom clicks from scale 1.0 the scale
\* lies in [0.5, 3.0], and each click has changed the scale by 0.2.  The
\* third zoom-out from 1.0 finds 0.6 and sets 0.5, a step of 0.1, and a click
\* at a limit changes nothing.
C25_ZoomSteps ==
  call.op \in {"zoomOut", "zoomIn"} =>
    /\ InZoomRange(call.after)
    /\ SteppedBy02

\* C25 as amended: the scale lies in [0.5, 3.0]; a zoom-out lowers it by 0.2
\* and a zoom-in raises it by 0.2, unless that would leave the range: then
\* the click sets the limit, 0.5 or 3.0, which is less than 0.2 away.
C25_ZoomStepsClamped ==
  call.op \in {"zoomOut", "zoomIn"} =>
    /\ InZoomRange(call.after)
    /\ \/ /\ SteppedBy02
          /\ call.op = "zoomOut" => FLess(call.after, call.before)
          /\ call.op = "zoomIn" => FLess(call.before, call.after)
       \/ /\ call.after = IF call.op = "zoomOut" THEN MinScale ELSE MaxScale
          /\ FLess(Distance(call.before, call.after), ZoomStep)

\* C25 happens: the third zoom-out in a row from 1.0 has found a scale above
\* 0.5 and has set 0.5.
C25_Witness ==
  /\ call.op = "zoomOut"
  /\ call.clicks = 3
  /\ call.after = MinScale
  /\ FLess(MinScale, call.before)
  /\ ~SteppedBy02

(***************************************************************************)
(* The size of the bitmap (SpecCanvas)                                     *)
(***************************************************************************)
\* a is a whole number
IsWhole(a) ==
  \/ a.m = <<>>
  \/ a.e >= 0
  \/ ShiftLeft(ShiftRight(a.m, -a.e), -a.e) = a.m

\* n is the whole number with n <= a < n + 1
IsFloorOf(n, a) ==
  /\ IsWhole(n)
  /\ ~FLess(a, n)
  /\ FLess(a, FAdd(n, Num(1)))

\* n is the whole number with n - 1 < a <= n
IsCeilOf(n, a) ==
  /\ IsWhole(n)
  /\ ~FLess(n, a)
  /\ FLess(FSub(n, Num(1)), a)

\* intrinsicWidth * s * d and intrinsicHeight * s * d for the page, the scale
\* and the pixel ratio coord holds
DeviceWidth ==
  FMul(FMul(coord.page.width, coord.s), coord.devicePixelRatio)

DeviceHeight ==
  FMul(FMul(coord.page.height, coord.s), coord.devicePixelRatio)

\* C26 as stated: the bitmap of a page at scale s and pixel density d is
\* ceil(intrinsicWidth * s * d) device pixels wide and
\* ceil(intrinsicHeight * s * d) high.  The canvas is sized with Math.floor:
\* a page of 612 points at scale 0.8 gets 489 pixels, not 490.
C26_BitmapCeil ==
  coord.step = "canvas" =>
    /\ IsCeilOf(coord.canvas.width, DeviceWidth)
    /\ IsCeilOf(coord.canvas.height, DeviceHeight)

\* C26 as amended: the width is floor(intrinsicWidth * s * d) and the height
\* floor(intrinsicHeight * s * d).
C26_BitmapFloor ==
  coord.step = "canvas" =>
    /\ IsFloorOf(coord.canvas.width, DeviceWidth)
    /\ IsFloorOf(coord.canvas.height, DeviceHeight)

\* C26 happens: the canvas of a page of 612 by 792 points at scale 0.8 and
\* pixel ratio 1.5 is 734 by 950 pixels, for 734.4 and 950.4.
C26_Witness ==
  /\ coord.step = "canvas"
  /\ coord.page = Page(612, 792)
  /\ coord.s = zoomOut(InitScale)
  /\ coord.devicePixelRatio = FDiv(Num(3), Num(2))
  /\ coord.canvas.width = Num(734)
  /\ coord.canvas.height = Num(950)

(***************************************************************************)
(* The font size of the spans (SpecTextLayer)                              *)
(***************************************************************************)
\* The items that get a span: those that hold more than white space
Printed(items) == SelectSeq(items, LAMBDA item : HasText(item.str))

\* sqrt(u^2 + v^2)
Hypot(u, v) == FSqrt(FAdd(FMul(u, u), FMul(v, v)))

\* C27 as stated: the font size of every span of the text layer is
\* scale * sqrt(a^2 + b^2) for the first two entries a, b of the transform of
\* its item.  The code takes the third and the fourth entry: for the matrix
\* [10, 0, 0, 12, ...] at scale 1 the font size is 12, not 10.
C27_FontSizeFirstColumn ==
  coord.step = "textLayer" =>
    /\ Len(coord.spans) = Len(Printed(coord.items))
    /\ \A k \in 1..Len(coord.spans) :
         LET tx == Printed(coord.items)[k].transform
         IN  coord.spans[k].fontSize = FMul(coord.s, Hypot(tx[1], tx[2]))

\* C27 as amended: the font size is scale * sqrt(c^2 + d^2) for the third
\* and the fourth entry c, d of the transform.
C27_FontSizeSecondColumn ==
  coord.step = "textLayer" =>
    /\ Len(coord.spans) = Len(Printed(coord.items))
    /\ \A k \in 1..Len(coord.spans) :
         LET tx == Printed(coord.items)[k].transform
         IN  coord.spans[k].fontSize = FMul(coord.s, Hypot(tx[3], tx[4]))

\* C27 happens: at scale 1.2 the text layer of a page that holds white space
\* and then text with the matrix [10, 0, 0, 12, 72, 700] is one span of font
\* size 12 * 1.2.
C27_Witness ==
  /\ coord.step = "textLayer"
  /\ coord.s = zoomIn(InitScale)
  /\ Len(coord.items) = 2
  /\ coord.items[1].str = <<" ">>
  /\ coord.items[2].transform = Transform(10, 0, 0, 12, 72, 700)
  /\ Len(coord.spans) = 1
  /\ coord.spans[1].fontSize = FMul(Num(12), zoomIn(InitScale))

(***************************************************************************)
(* The pages the annotations are on (SpecSession)                          *)
(***************************************************************************)
\* C28: in every state of the application every annotation of the list is on
\* a page 1..pageCount of the selected document; the double click that stores
\* one is on a page PdfRenderer shows; and no export was handed an annotation
\* for a page its document does not have, so that saveFilledPdf passes none
\* over.
C28_AnnotationsOnPages ==
  /\ [](\A i \in 1..Len(annotations) :
          /\ annotations[i].page >= 1
          /\ annotations[i].page <= Len(fileData.pages))
  /\ [][Len(annotations') > Len(annotations) =>
          /\ renderer = "loaded"
          /\ annotations'[Len(annotations')].page \in 1..Len(fileData.pages)
          /\ fileData' = fileData]_vars
  /\ [](\A e \in 1..Len(exports) :
          \A i \in 1..Len(exports[e].annotations) :
            /\ exports[e].annotations[i].page >= 1
            /\ ~skipped(exports[e].annotations[i], exports[e].docPages))

\* C28 happens: form.pdf, of two pages, is on screen with a field on its
\* page 1 and one on its last page, and "Download PDF" was clicked with both.
C28_Witness ==
  /\ fileData.name = "form.pdf"
  /\ renderer = "loaded"
  /\ Len(annotations) = 2
  /\ annotations[1].page = 1
  /\ annotations[2].page = Len(fileData.pages)
  /\ Len(exports) = 1
  /\ exports[1].annotations = annotations
  /\ exports[1].docPages = fileData.pages

(***************************************************************************)
(* The way back to the upload screen (SpecSession)                         *)
(***************************************************************************)
\* C29: from every state of the application the user can get back to the
\* upload screen; so whenever an analysis has ended, with a result or with a
\* failure, "Start Over" can be clicked or another document selected.  After
\* a failed analysis neither can: "Start Over" is rendered for status
\* COMPLETE only and FileUpload for status IDLE only, and no handler leaves
\* status ERROR.
C29_CanStartOver ==
  status \in {"COMPLETE", "ERROR"} =>
    ENABLED (resetApp \/ \E file \in Files : handleFileSelect(file))

(***************************************************************************)
(* The scale of a double click and the scale of the bitmap                 *)
(* (SpecGestureRender)                                                     *)
(***************************************************************************)
\* The scale of the bitmap the canvas of page-view v holds, once a render
\* has sized the canvas and painted on it: the scale of that render
BitmapScale(v) == v.renders[v.canvas.render].scale

\* C30: whenever a double click on a page-view stores an annotation, the
\* scale its point is divided by is the scale of the bitmap the page-view
\* shows, also after a scale change whose render has not completed.  The
\* handler divides by the scale prop, which changes at once, while the canvas
\* keeps the bitmap of the scale before until the new render has its page;
\* the loading overlay lies inside the wrapper and stops no double click.
C30_GestureAtBitmapScale ==
  [][(Len(annotations') > Len(annotations) /\ call'.op = "doubleClick") =>
       LET v == view[call'.page]
       IN  (v.canvas.render # 0 /\ v.canvas.painted # "blank") =>
             BitmapScale(v) = call'.scale]_vars

====
